---- MODULE Spec2Model ----
(***************************************************************************)
(* Model of the chat Lambda of betterbubble-ai-assistant-cdk               *)
(* (src/lambda_functions/ai_assistant/lambda_function.py) and of the       *)
(* DynamoDB tables it reads and writes (src/stacks/dynamodb.py).           *)
(*                                                                         *)
(* Time is the wall clock in whole seconds (datetime.utcnow()); one        *)
(* invocation of the handler reads one clock value.  Text is modelled by   *)
(* strings, searched and lower-cased character by character as Python      *)
(* does.  A table is the set of its items; put_item replaces the item      *)
(* with the same primary key.                                              *)
(***************************************************************************)
EXTENDS Integers, Sequences, FiniteSets, TLC

VARIABLES
    clock,           \* datetime.utcnow(), in seconds
    environ,         \* os.environ of the Lambda
    users,           \* users table, key user_id
    conversations,   \* conversations table, key (user_id, conversation_id)
    reminders,       \* reminders table, key (user_id, reminder_id)
    adminKnowledge,  \* admin-knowledge table, key knowledge_id
    budget,          \* budget table, key budget_id
    searchHistory,   \* search-history table, key (user_id, search_id)
    log,             \* the invocations handled so far: event, outcome, calls made
    arg,             \* the input of the function under study (function specifications)
    ret              \* its result

vars == <<clock, environ, users, conversations, reminders, adminKnowledge,
          budget, searchHistory, log, arg, ret>>

tables == <<users, conversations, reminders, adminKnowledge, budget, searchHistory>>

\* Python's None, where the other values are records
None == [none |-> TRUE]

(***************************************************************************)
(* Python strings                                                          *)
(***************************************************************************)

\* s[i-1:j] of Python, for i and j counted from 1: the part of s from its i-th to
\* its j-th character, cut to what s has
Slice(s, i, j) ==
    LET a == IF i < 1 THEN 1 ELSE i
        b == IF j > Len(s) THEN Len(s) ELSE j
    IN  IF a > b THEN SubSeq(s, 1, 0) ELSE SubSeq(s, a, b)

\* str.lower() of one character
LowerChar(c) ==
    CASE c = "A" -> "a" [] c = "B" -> "b" [] c = "C" -> "c" [] c = "D" -> "d"
      [] c = "E" -> "e" [] c = "F" -> "f" [] c = "G" -> "g" [] c = "H" -> "h"
      [] c = "I" -> "i" [] c = "J" -> "j" [] c = "K" -> "k" [] c = "L" -> "l"
      [] c = "M" -> "m" [] c = "N" -> "n" [] c = "O" -> "o" [] c = "P" -> "p"
      [] c = "Q" -> "q" [] c = "R" -> "r" [] c = "S" -> "s" [] c = "T" -> "t"
      [] c = "U" -> "u" [] c = "V" -> "v" [] c = "W" -> "w" [] c = "X" -> "x"
      [] c = "Y" -> "y" [] c = "Z" -> "z" [] OTHER -> c

RECURSIVE Lower(_)
\* str.lower()
Lower(s) ==
    IF Len(s) = 0 THEN ""
    ELSE LowerChar(Slice(s, 1, 1)) \o Lower(Slice(s, 2, Len(s)))

\* `p in s` for strings
Contains(s, p) ==
    \E i \in 1..(Len(s) - Len(p) + 1) : Slice(s, i, i + Len(p) - 1) = p

\* any(p in s for p in ps)
ContainsAny(s, ps) == \E p \in ps : Contains(s, p)

\* str.find(p): the first index (from 1) of p in s, 0 when absent
Find(s, p) ==
    IF Contains(s, p)
    THEN CHOOSE i \in 1..(Len(s) - Len(p) + 1) :
            /\ Slice(s, i, i + Len(p) - 1) = p
            /\ \A j \in 1..(i - 1) : Slice(s, j, j + Len(p) - 1) # p
    ELSE 0

RECURSIVE LStrip(_)
\* str.lstrip() for blanks
LStrip(s) ==
    IF Len(s) > 0 /\ Slice(s, 1, 1) = " " THEN LStrip(Slice(s, 2, Len(s))) ELSE s

RECURSIVE RStrip(_)
\* str.rstrip() for blanks
RStrip(s) ==
    IF Len(s) > 0 /\ Slice(s, Len(s), Len(s)) = " "
    THEN RStrip(Slice(s, 1, Len(s) - 1)) ELSE s

\* str.strip()
Strip(s) == RStrip(LStrip(s))

RECURSIVE Split(_)
\* str.split(): the blank-separated words of s
Split(s) ==
    LET t == LStrip(s) IN
    IF Len(t) = 0 THEN <<>>
    ELSE LET n == IF Contains(t, " ") THEN Find(t, " ") - 1 ELSE Len(t)
         IN  <<Slice(t, 1, n)>> \o Split(Slice(t, n + 1, Len(t)))

\* seq[:n]
Take(seq, n) == SubSeq(seq, 1, IF n < Len(seq) THEN (IF n < 0 THEN 0 ELSE n) ELSE Len(seq))

\* seq[-n:]
LastN(seq, n) == SubSeq(seq, IF Len(seq) > n THEN Len(seq) - n + 1 ELSE 1, Len(seq))

Range(seq) == {seq[i] : i \in 1..Len(seq)}

(***************************************************************************)
(* verify_jwt_token                                                        *)
(*                                                                         *)
(* A token is what PyJWT sees of it: whether it parses, the kid of its     *)
(* header, whether its RS256 signature verifies under the key of that kid, *)
(* whether it is expired, and its payload.  The JWKS reply is JwksDown     *)
(* (the fetch or its JSON decoding raised), JwksNoKeys (a JSON object      *)
(* without "keys") or Jwks(kids), the kids of the keys it lists.           *)
(***************************************************************************)
NoKid == "NoKid"
\* None where the other values are strings: dict.get() of a missing key
Absent == "Absent"

JwksDown == [status |-> "down", keys |-> {}]
JwksNoKeys == [status |-> "nokeys", keys |-> {}]
Jwks(kids) == [status |-> "ok", keys |-> kids]

\* expected_issuer for the pool of COGNITO_USER_POOL_ID
ExpectedIssuer(user_pool_id) == "https://cognito-idp.us-west-2.amazonaws.com/" \o user_pool_id

\* verify_jwt_token without the token_use check
verify_jwt_token_no_token_use(token, user_pool_id, jwks, env) ==
    IF jwks.status # "ok" THEN None
    ELSE IF ~token.wellFormed THEN None
    ELSE IF token.kid = NoKid THEN None
    ELSE IF token.kid \notin jwks.keys THEN None
    ELSE IF ~token.signatureValid THEN None
    ELSE IF token.expired THEN None
    ELSE IF token.payload.iss # ExpectedIssuer(user_pool_id) THEN None
    ELSE IF token.payload.client_id # env.COGNITO_USER_POOL_CLIENT_ID THEN None
    ELSE token.payload

\* verify_jwt_token(token, user_pool_id): the payload, or None; every exception
\* raised on the way is caught and answered with None
verify_jwt_token(token, user_pool_id, jwks, env) ==
    \* requests.get(jwks_url).json() raised, or jwks['keys'] is a KeyError
    IF jwks.status # "ok" THEN None
    \* jwt.get_unverified_header(token) raised DecodeError
    ELSE IF ~token.wellFormed THEN None
    \* unverified_header['kid'] is a KeyError
    ELSE IF token.kid = NoKid THEN None
    \* no jwk of the set has this kid: ValueError('Unable to find appropriate key')
    ELSE IF token.kid \notin jwks.keys THEN None
    \* jwt.decode: signature (RS256), exp, issuer
    ELSE IF ~token.signatureValid THEN None
    ELSE IF token.expired THEN None
    ELSE IF token.payload.iss # ExpectedIssuer(user_pool_id) THEN None
    \* payload.get('client_id') != expected_audience
    ELSE IF token.payload.client_id # env.COGNITO_USER_POOL_CLIENT_ID THEN None
    \* payload.get('token_use') != 'access'
    ELSE IF token.payload.token_use # "access" THEN None
    ELSE token.payload

(***************************************************************************)
(* DynamoDB                                                                *)
(*                                                                         *)
(* Identifiers built from int(datetime.utcnow().timestamp()) are modelled  *)
(* by that number: the clock stands for an epoch second of ten digits, so  *)
(* the string order DynamoDB sorts them by is the order of the numbers.    *)
(***************************************************************************)

\* Table.put_item(Item=item): replaces the item that has the same primary key
PutItem(table, item, key) ==
    {x \in table : \E k \in key : x[k] # item[k]} \cup {item}

RECURSIVE SortAsc(_)
\* the items of a set of <<rank, item>> pairs, by rising rank
SortAsc(P) ==
    IF P = {} THEN <<>>
    ELSE LET m == CHOOSE p \in P : \A q \in P : p[1] <= q[1]
         IN  <<m[2]>> \o SortAsc(P \ {m})

\* list.reverse()
Reverse(seq) == [i \in 1..Len(seq) |-> seq[Len(seq) + 1 - i]]

\* Table.query on one partition: the items in the order of their sort key
\* (`rank` gives each item's place; ScanIndexForward), of which the first `limit`
\* are read (Limit counts the items read, before the FilterExpression is
\* applied), of which those the filter lets pass (`passing`) are returned
Query(partition, rank, forward, limit, passing) ==
    LET sorted == SortAsc({<<rank[x], x>> : x \in partition})
        ordered == IF forward THEN sorted ELSE Reverse(sorted)
        Filter(x) == x \in passing
    IN  SelectSeq(Take(ordered, limit), Filter)

\* f"conv_{int(datetime.utcnow().timestamp())}"
ConversationId(now) == [prefix |-> "conv_", n |-> now]

\* the key attributes of the tables (partition key, sort key)
ConversationKey == {"user_id", "conversation_id"}
ReminderKey == {"user_id", "reminder_id"}
KnowledgeKey == {"knowledge_id"}
BudgetKey == {"budget_id"}
SearchKey == {"user_id", "search_id"}

\* the tables as one value
DB == [users |-> users, conversations |-> conversations, reminders |-> reminders,
       adminKnowledge |-> adminKnowledge, budget |-> budget,
       searchHistory |-> searchHistory]

ThreadWindow == 1800
DaySeconds == 86400
HistoryLimit == 10
PromptTurns == 5
SearchHistoryLimit == 50

(***************************************************************************)
(* Conversation history and threads                                        *)
(***************************************************************************)

\* get_conversation_history reading the user's message into both fields
get_conversation_history_echo(db, user_id, topic, failed) ==
    IF failed THEN <<>>
    ELSE LET partition == {x \in db.conversations : x.user_id = user_id}
             rank == [x \in partition |-> x.conversation_id.n]
             items == Query(partition, rank, FALSE, HistoryLimit,
                            {x \in partition : x.topic = topic})
             conversations_ == [i \in 1..Len(items) |->
                                  [user_message |-> items[i].user_message,
                                   ai_response |-> items[i].user_message,
                                   timestamp |-> items[i].timestamp,
                                   thread_id |-> items[i].thread_id,
                                   topic |-> items[i].topic]]
         IN  Reverse(conversations_)

\* get_conversation_history(user_id, dynamodb, topic, limit=10): the turns of the
\* topic among the `limit` newest items of the user, oldest first; [] when the
\* query raises
get_conversation_history(db, user_id, topic, failed) ==
    IF failed THEN <<>>
    ELSE LET partition == {x \in db.conversations : x.user_id = user_id}
             rank == [x \in partition |-> x.conversation_id.n]
             items == Query(partition, rank, FALSE, HistoryLimit,
                            {x \in partition : x.topic = topic})
             conversations_ == [i \in 1..Len(items) |->
                                  [user_message |-> items[i].user_message,
                                   ai_response |-> items[i].ai_response,
                                   timestamp |-> items[i].timestamp,
                                   thread_id |-> items[i].thread_id,
                                   topic |-> items[i].topic]]
         IN  Reverse(conversations_)

\* f"thread_{user_id}_{topic}_{int(datetime.utcnow().timestamp())}"
NewThreadId(user_id, topic, now) == [user_id |-> user_id, topic |-> topic, minted |-> now]

\* get_or_create_thread_id that keeps one thread per user and topic
get_or_create_thread_id_per_topic(db, user_id, topic, now, failed) ==
    NewThreadId(user_id, topic, 0)

\* get_or_create_thread_id(user_id, dynamodb, topic): the thread of the newest
\* item of the user when that item is of the topic and younger than 30 minutes,
\* else a new thread id; a new thread id when the query raises
get_or_create_thread_id(db, user_id, topic, now, failed) ==
    IF failed THEN NewThreadId(user_id, topic, now)
    ELSE LET partition == {x \in db.conversations : x.user_id = user_id}
             rank == [x \in partition |-> x.conversation_id.n]
             items == Query(partition, rank, FALSE, 1,
                            {x \in partition : x.topic = topic})
         IN  IF Len(items) > 0 /\ now - items[1].timestamp < ThreadWindow
             THEN items[1].thread_id
             ELSE NewThreadId(user_id, topic, now)

(***************************************************************************)
(* Reminders                                                               *)
(***************************************************************************)

\* f"rem_{int(datetime.utcnow().timestamp())}"
ReminderId(now) == [prefix |-> "rem_", n |-> now]

\* the item create_reminder(user_id, reminder_text) puts: due in 24 hours
\* (due_date in milliseconds), pending, ttl 30 days
ReminderItem(user_id, reminder_text, now) ==
    [user_id |-> user_id, reminder_id |-> ReminderId(now),
     reminder_text |-> reminder_text, due_date |-> (now + DaySeconds) * 1000,
     reminder_type |-> "general", created_at |-> now, status |-> "pending",
     ttl |-> now + DaySeconds * 30]

\* create_reminder: the reminders table after it, and the id it returns (None
\* when put_item raises)
create_reminder(db, user_id, reminder_text, now, failed) ==
    IF failed THEN [reminders |-> db.reminders, id |-> None]
    ELSE [reminders |-> PutItem(db.reminders, ReminderItem(user_id, reminder_text, now),
                                ReminderKey),
          id |-> ReminderId(now)]

\* get_due_reminders(user_id): the pending reminders of the user due now or
\* earlier, by rising reminder_id; [] when the query raises
get_due_reminders(db, user_id, now, failed) ==
    IF failed THEN <<>>
    ELSE LET partition == {x \in db.reminders : x.user_id = user_id}
             rank == [x \in partition |-> x.reminder_id.n]
         IN  Query(partition, rank, TRUE, Cardinality(partition),
                   {x \in partition : x.due_date <= now * 1000 /\ x.status = "pending"})

\* get_next_reminder(user_id): Limit=1, so only the item of the smallest
\* reminder_id is read; None unless that one is pending and due later
get_next_reminder(db, user_id, now, failed) ==
    IF failed THEN None
    ELSE LET partition == {x \in db.reminders : x.user_id = user_id}
             rank == [x \in partition |-> x.reminder_id.n]
             items == Query(partition, rank, TRUE, 1,
                            {x \in partition : x.due_date > now * 1000 /\ x.status = "pending"})
         IN  IF Len(items) > 0
             THEN LET time_until == items[1].due_date - now * 1000
                  IN  [reminder_text |-> items[1].reminder_text,
                       due_timestamp |-> items[1].due_date,
                       time_until_seconds |->
                           IF time_until \div 1000 > 0 THEN time_until \div 1000 ELSE 0]
             ELSE None

\* the phrases of handler that ask for a reminder
ReminderPhrases == {"remind me to", "don't forget to", "i need to remember",
                    "set a reminder for"}

(***************************************************************************)
(* Admin knowledge and the role of the caller                              *)
(***************************************************************************)

\* is_user_admin that takes every user with an item for an admin
is_user_admin_any_role(db, user_id, failed) ==
    IF failed THEN FALSE
    ELSE \E u \in db.users : u.user_id = user_id

\* is_user_admin that takes a failed lookup for an admin
is_user_admin_open(db, user_id, failed) ==
    IF failed THEN TRUE
    ELSE \E u \in db.users : u.user_id = user_id /\ u.role = "admin"

\* is_user_admin(user_id, dynamodb): the users item has role 'admin'; False when
\* there is no item or get_item raises.  The lookup names user_id alone; the users
\* table of stacks/dynamodb.py also has the sort key created_at, and against a
\* table of that schema get_item is rejected, which is the `failed` case here.
is_user_admin(db, user_id, failed) ==
    IF failed THEN FALSE
    ELSE \E u \in db.users : u.user_id = user_id /\ u.role = "admin"

\* is_admin_knowledge_command(message)
is_admin_knowledge_command(message) ==
    ContainsAny(Lower(message), {"remember that", "remember the", "permanently remember",
                                 "admin knowledge", "set knowledge", "permanent fact"})

\* the knowledge_starters of extract_knowledge_from_command, in order
KnowledgeStarters == <<"remember that ", "remember the ", "permanently remember ",
                       "admin knowledge: ", "set knowledge: ", "permanent fact: ">>

RECURSIVE JoinWords(_)
\* " ".join(words)
JoinWords(words) ==
    IF Len(words) = 0 THEN ""
    ELSE IF Len(words) = 1 THEN words[1]
    ELSE words[1] \o " " \o JoinWords(Tail(words))

\* extract_knowledge_from_command(message): what follows the first starter of
\* the list found in the message; else what follows the first word "remember";
\* else the message
extract_knowledge_from_command(message) ==
    LET message_lower == Lower(message)
        found == {i \in 1..Len(KnowledgeStarters) : Contains(message_lower, KnowledgeStarters[i])}
        words == Split(message)
        at == {i \in 1..Len(words) : Lower(words[i]) = "remember"}
    IN  IF found # {}
        THEN LET starter == KnowledgeStarters[CHOOSE i \in found : \A j \in found : i <= j]
                 start_index == Find(message_lower, starter) + Len(starter)
             IN  Strip(Slice(message, start_index, Len(message)))
        ELSE IF Contains(message_lower, "remember") /\ \E i \in at : i + 1 <= Len(words)
        THEN LET i == CHOOSE k \in at : k + 1 <= Len(words) /\ \A j \in at : j + 1 <= Len(words) => k <= j
             IN  Strip(JoinWords(SubSeq(words, i + 1, Len(words))))
        ELSE Strip(message)

\* f"knowledge_{int(datetime.utcnow().timestamp())}"
KnowledgeId(now) == "knowledge_" \o ToString(now)

\* save_admin_knowledge(knowledge_text, dynamodb): the table after it, and
\* whether it saved (False when put_item raises); ttl 10 years
save_admin_knowledge(db, knowledge_text, now, failed) ==
    IF failed THEN [adminKnowledge |-> db.adminKnowledge, saved |-> FALSE]
    ELSE [adminKnowledge |->
              PutItem(db.adminKnowledge,
                      [knowledge_id |-> KnowledgeId(now), knowledge |-> knowledge_text,
                       created_at |-> now, created_by |-> "admin",
                       ttl |-> now + DaySeconds * 365 * 10],
                      KnowledgeKey),
          saved |-> TRUE]

\* get_admin_knowledge(dynamodb): the facts of the scanned items (the text lists
\* them); nothing when the scan raises
get_admin_knowledge(db, failed) ==
    IF failed THEN {} ELSE {item.knowledge : item \in db.adminKnowledge}


(***************************************************************************)
(* Budget                                                                  *)
(***************************************************************************)

\* is_budget_command(message)
is_budget_command(message) ==
    LET message_lower == Lower(message) IN
    \/ ContainsAny(message_lower, {"spent", "spend", "budget", "expense", "cost", "paid",
                                   "bought", "purchased", "invested"})
    \/ ContainsAny(message_lower, {"spent $", "spent ", "spend $", "cost $", "paid $",
                                   "bought ", "purchased ", "invested $"})

IsDigit(c) == c \in {"0", "1", "2", "3", "4", "5", "6", "7", "8", "9"}

CharAt(s, i) == Slice(s, i, i)

RECURSIVE DigitsAt(_, _)
\* the length of the run of digits of s that starts at i
DigitsAt(s, i) == IF IsDigit(CharAt(s, i)) THEN 1 + DigitsAt(s, i + 1) ELSE 0

RECURSIVE BlanksAt(_, _)
\* the length of the run of blanks of s that starts at i
BlanksAt(s, i) == IF CharAt(s, i) = " " THEN 1 + BlanksAt(s, i + 1) ELSE 0

\* \d+(?:\.\d{2})? at i: the end (exclusive) of the longest match, 0 when none
NumberEnd(s, i) ==
    LET d == DigitsAt(s, i)
    IN  IF d = 0 THEN 0
        ELSE IF CharAt(s, i + d) = "." /\ DigitsAt(s, i + d + 1) >= 2 THEN i + d + 3
        ELSE i + d

\* (\d+(?:\.\d{2})?)\s*word at i, case ignored: the end (exclusive) of the
\* number matched, 0 when there is no match at i
NumberBeforeWordEnd(s, i, word) ==
    LET d == DigitsAt(s, i)
        WordAt(j) == Lower(Slice(s, j + BlanksAt(s, j), j + BlanksAt(s, j) + Len(word) - 1)) = word
    IN  IF d = 0 THEN 0
        ELSE IF NumberEnd(s, i) > i + d /\ WordAt(NumberEnd(s, i)) THEN NumberEnd(s, i)
        ELSE IF WordAt(i + d) THEN i + d
        ELSE 0

\* float(text)
Float(text) == [float |-> text]
IsFloat(v) == "float" \in DOMAIN v

\* the truth value of a float, or of None
Truthy(v) == IsFloat(v) /\ \E i \in 1..Len(v.float) : CharAt(v.float, i) \in {"1", "2", "3", "4", "5", "6", "7", "8", "9"}

\* the amount of extract_budget_info(message): the first of the three patterns
\* ($N, N dollars, N bucks) that matches, at its leftmost match; None when none
ExtractAmount(message) ==
    LET dollar == {i \in 1..Len(message) : CharAt(message, i) = "$" /\ NumberEnd(message, i + 1) > 0}
        dollars == {i \in 1..Len(message) : NumberBeforeWordEnd(message, i, "dollar") > 0}
        bucks == {i \in 1..Len(message) : NumberBeforeWordEnd(message, i, "buck") > 0}
        First(S) == CHOOSE i \in S : \A j \in S : i <= j
    IN  IF dollar # {}
        THEN Float(Slice(message, First(dollar) + 1, NumberEnd(message, First(dollar) + 1) - 1))
        ELSE IF dollars # {}
        THEN Float(Slice(message, First(dollars),
                          NumberBeforeWordEnd(message, First(dollars), "dollar") - 1))
        ELSE IF bucks # {}
        THEN Float(Slice(message, First(bucks),
                          NumberBeforeWordEnd(message, First(bucks), "buck") - 1))
        ELSE None

\* extract_budget_info(message)
extract_budget_info(message, now) ==
    [amount |-> ExtractAmount(message), date |-> now]

\* f"budget_{int(datetime.utcnow().timestamp())}"
BudgetId(now) == [prefix |-> "budget_", n |-> now]

\* save_budget_entry(user_id, budget_info, dynamodb): the table after it, and
\* whether it saved.  put_item serialises the item with boto3's TypeSerializer,
\* which raises TypeError for a Python float: the amount is one, so the put
\* raises, and save_budget_entry catches it and returns False
save_budget_entry(db, user_id, budget_info, now, failed) ==
    IF failed \/ IsFloat(budget_info.amount)
    THEN [budget |-> db.budget, saved |-> FALSE]
    ELSE [budget |->
              PutItem(db.budget,
                      [budget_id |-> BudgetId(now), user_id |-> user_id,
                       amount |-> budget_info.amount, date |-> budget_info.date,
                       created_at |-> now, organization |-> "BetterBubble",
                       ttl |-> now + DaySeconds * 365 * 5],
                      BudgetKey),
          saved |-> TRUE]

\* the words that ask for the budget summary, without 'summary' and 'tally'
BudgetQueryWordsFewer == {"budget", "spending", "expenses", "total"}

\* the words of handler that ask for the budget summary
BudgetQueryWords == {"budget", "spending", "expenses", "total", "summary", "tally"}

\* get_budget_summary('BetterBubble', dynamodb): None when the scan raises
get_budget_summary(db, failed) ==
    IF failed THEN None
    ELSE LET entries == {e \in db.budget : e.organization = "BetterBubble"}
         IN  [total_entries |-> Cardinality(entries), entries |-> entries,
              organization |-> "BetterBubble"]


(***************************************************************************)
(* Research engine                                                         *)
(*                                                                         *)
(* What the world answers is an input of the request: env.ddg and env.kg   *)
(* are the replies of the search backends to the first, second, ... query  *)
(* of the request, env.crawlable the URLs whose fetch succeeds, env.fail   *)
(* the calls that raise.                                                   *)
(***************************************************************************)

\* the phrases and the words the generic extractor of search_web_for_query skips
StopPhrases == {"tell me", "what are", "can you", "i want", "i need", "need to",
                "to research", "to know"}
StopWords == {"what", "are", "the", "latest", "developments", "in", "can", "you", "tell",
              "me", "everything", "about", "need", "to", "research", "know", "zip", "code",
              "monthly", "payment", "down", "upfront",
              "if", "someone", "afford", "for", "months", "how", "much", "do", "have",
              "give", "her", "today", "and", "low", "get", "my", "contribution", "buy",
              "that", "car", "tomorrow"}

\* the search terms search_web_for_query plans for a message
PlanSearchTerms(user_message) ==
    LET search_query == Strip(user_message)
        search_lower == Lower(search_query)
        Has(p) == Contains(search_lower, p)
        words == Split(search_query)
        pairs == [i \in 1..(Len(words) - 1) |-> words[i] \o " " \o words[i + 1]]
        GoodPhrase(phrase) == Len(phrase) > 5 /\ Lower(phrase) \notin StopPhrases
        GoodWord(w) == Len(w) > 3 /\ Lower(w) \notin StopWords
        generic == Take(SelectSeq(pairs, GoodPhrase), 2) \o Take(SelectSeq(words, GoodWord), 3)
    IN  IF Has("quantum computing")
        THEN <<"quantum computing", "quantum computers", "quantum technology">>
        ELSE IF Has("artificial intelligence") \/ Has("ai")
        THEN <<"artificial intelligence", "AI developments", "machine learning">>
        ELSE IF Has("machine learning")
        THEN <<"machine learning", "ML algorithms", "deep learning">>
        ELSE IF Has("blockchain")
        THEN <<"blockchain", "cryptocurrency", "distributed ledger">>
        ELSE IF Has("mazda") /\ Has("cx-30")
        THEN <<"Mazda CX-30", "Mazda CX-30 price", "Mazda CX-30 financing">>
        ELSE IF Has("mazda")
        THEN <<"Mazda", "Mazda cars", "Mazda pricing">>
        ELSE IF Has("financing") \/ Has("loan") \/ Has("credit union")
        THEN <<"auto financing", "car loans", "credit union rates">>
        ELSE IF Has("date") \/ Has("today")
        THEN <<"current date", "today's date", "what day is it">>
        ELSE IF Len(generic) > 0 THEN generic
        ELSE <<search_query>>

\* a reply of a backend that has nothing to say
EmptyDdgReply == [instant_ok |-> TRUE, abstract |-> None, related |-> <<>>,
                  html_ok |-> TRUE, links |-> <<>>]
EmptyKgReply == [ok |-> TRUE, items |-> <<>>]

\* the reply to the k-th query of the request
ReplyAt(replies, k, empty) == IF k <= Len(replies) THEN replies[k] ELSE empty

\* search_duckduckgo(query, max_results) on the reply of the backend: the
\* instant answer, the related topics, and, when these are fewer than
\* max_results, the links of the HTML page; [] when a fetch or a parse raises
search_duckduckgo(query, max_results, reply) ==
    IF ~reply.instant_ok THEN <<>>
    ELSE
    LET answer == IF reply.abstract # None
                  THEN <<[title |-> reply.abstract.Heading, content |-> reply.abstract.Abstract,
                          url |-> reply.abstract.AbstractURL,
                          source |-> "DuckDuckGo Instant Answer"]>>
                  ELSE <<>>
        HasTextAndUrl(t) == t.Text # Absent /\ t.FirstURL # Absent
        topics == SelectSeq(Take(reply.related, max_results), HasTextAndUrl)
        related == [i \in 1..Len(topics) |->
                      [title |-> IF Len(topics[i].Text) > 100
                                 THEN Slice(topics[i].Text, 1, 100) \o "..."
                                 ELSE topics[i].Text,
                       content |-> topics[i].Text, url |-> topics[i].FirstURL,
                       source |-> "DuckDuckGo Related Topics"]]
        results == answer \o related
        HasTitleAndUrl(l) == l.title # "" /\ l.url # ""
        links == SelectSeq(Take(reply.links, max_results - Len(results)), HasTitleAndUrl)
        web == [i \in 1..Len(links) |->
                  [title |-> links[i].title,
                   content |-> IF links[i].snippet # "" THEN links[i].snippet ELSE links[i].title,
                   url |-> links[i].url, source |-> "DuckDuckGo Web Search"]]
    IN  IF Len(results) < max_results
        THEN (IF reply.html_ok THEN Take(results \o web, max_results) ELSE <<>>)
        ELSE Take(results, max_results)

\* search_google_knowledge_graph(query, api_key, max_results)
search_google_knowledge_graph(query, max_results, reply) ==
    IF ~reply.ok THEN <<>>
    ELSE Take([i \in 1..Len(reply.items) |->
                 [title |-> reply.items[i].name, content |-> reply.items[i].description,
                  url |-> reply.items[i].url, source |-> "Google Knowledge Graph"]],
              max_results)

\* generate_follow_up_queries(topic, initial_results): the first three of the
\* template the topic selects
generate_follow_up_queries(topic) ==
    LET topic_lower == Lower(topic) IN
    IF Contains(topic_lower, "technology") \/ Contains(topic_lower, "ai")
       \/ Contains(topic_lower, "artificial intelligence")
    THEN <<"latest " \o topic \o " news 2024", topic \o " applications and use cases",
           topic \o " challenges and limitations">>
    ELSE IF Contains(topic_lower, "science")
    THEN <<"recent " \o topic \o " research studies", topic \o " scientific discoveries",
           topic \o " experiments and findings">>
    ELSE IF Contains(topic_lower, "business") \/ Contains(topic_lower, "finance")
    THEN <<topic \o " market analysis", topic \o " industry trends",
           topic \o " investment opportunities">>
    ELSE <<"recent " \o topic \o " developments", topic \o " latest news",
           topic \o " important facts">>

\* crawl_website(url): one entry of source 'Website Crawl', None when the fetch
\* or the parse raises
crawl_website(url, crawlable) ==
    IF url \in crawlable
    THEN [title |-> "page", content |-> "text of " \o url, url |-> url,
          source |-> "Website Crawl"]
    ELSE None

RECURSIVE DdgLoop(_, _, _, _, _, _, _)
\* for q in queries: results.extend(search_duckduckgo(q, cap)); stop once
\* len(results) >= enough.  st holds the accumulator, the number of DuckDuckGo
\* queries the request has issued, and the queries issued
DdgLoop(queries, i, cap, enough, replies, failed, st) ==
    IF i > Len(queries) THEN st
    ELSE LET got == IF failed THEN <<>>
                    ELSE search_duckduckgo(queries[i], cap,
                                           ReplyAt(replies, st.issued + 1, EmptyDdgReply))
             next == [all_results |-> st.all_results \o got, issued |-> st.issued + 1,
                      queries |-> Append(st.queries, [query |-> queries[i], cap |-> cap,
                                                      before |-> Len(st.all_results),
                                                      got |-> Len(got)])]
         IN  IF Len(next.all_results) >= enough THEN next
             ELSE DdgLoop(queries, i + 1, cap, enough, replies, failed, next)

RECURSIVE KgLoop(_, _, _, _, _, _)
\* for term in terms: extend by search_google_knowledge_graph(term, key,
\* max_results - len(results)); stop once len(results) >= max_results
KgLoop(terms, i, max_results, replies, failed, acc) ==
    IF i > Len(terms) THEN acc
    ELSE LET got == IF failed THEN <<>>
                    ELSE search_google_knowledge_graph(terms[i], max_results - Len(acc),
                                                       ReplyAt(replies, i, EmptyKgReply))
             next == acc \o got
         IN  IF Len(next) >= max_results THEN next
             ELSE KgLoop(terms, i + 1, max_results, replies, failed, next)


\* f"{user_id}_{topic}_{int(datetime.utcnow().timestamp())}_{i}"
SearchId(user_id, topic, now, i) == [user_id |-> user_id, topic |-> topic, n |-> now, i |-> i]

\* get_search_history(user_id, topic, dynamodb): the items of (user_id, topic) on
\* the topic-index, at most 50 of them; [] when the query raises.  The items of
\* the pair have one key on the index, so the order in which the index yields
\* them is not the code's to choose: `last` names the items it yields after the
\* others, which come newest first
get_search_history(db, user_id, topic, last, failed) ==
    IF failed THEN {}
    ELSE LET items == {h \in db.searchHistory : h.user_id = user_id /\ h.topic = topic}
             rank == [h \in items |-> IF h.search_id \in last THEN 0 - 1
                                      ELSE h.search_id.n * 100 + h.search_id.i]
         IN  Range(Query(items, rank, FALSE, SearchHistoryLimit, items))

\* get_unseen_results(all_results, search_history)
get_unseen_results(all_results, search_history) ==
    LET seen_urls == {h.result_url : h \in {x \in search_history : x.result_url # ""}}
        Unseen(r) == r.url \notin seen_urls
    IN  SelectSeq(all_results, Unseen)

\* save_search_results(user_id, topic, search_query, results, dynamodb): one
\* put_item per result, of search_id ..._{i}; nothing more is put once a put raises
save_search_results(db, user_id, topic, search_query, results, now, failed) ==
    IF failed THEN db.searchHistory
    ELSE LET items == {[user_id |-> user_id, topic |-> topic,
                        search_id |-> SearchId(user_id, topic, now, i - 1),
                        search_query |-> search_query,
                        result_title |-> results[i].title, result_url |-> results[i].url,
                        result_source |-> results[i].source, searched_at |-> now,
                        ttl |-> now + DaySeconds * 7] : i \in 1..Len(results)}
         IN  {h \in db.searchHistory :
                 \A x \in items : \E k \in SearchKey : x[k] # h[k]} \cup items

\* the selection of search_web_for_query: the unseen results, filled up to
\* max_results with seen ones when they are fewer, cut to max_results
SelectResults(all_results, search_history, max_results) ==
    LET unseen_results == get_unseen_results(all_results, search_history)
        history_urls == {h.result_url : h \in search_history}
        Seen(r) == r.url \in history_urls
        seen_results == SelectSeq(all_results, Seen)
        filled == IF Len(unseen_results) < max_results
                  THEN unseen_results \o Take(seen_results, max_results - Len(unseen_results))
                  ELSE unseen_results
    IN  Take(filled, max_results)

\* search_web_for_query.  The steps below follow the code in its order; each
\* takes the local variables so far as the record f and adds the ones it assigns.

\* API key, search history and planned terms (lines 670-737)
search_plan(f) ==
    LET use_ssm == f.osenv.GOOGLE_API_KEY_PARAM # ""
    IN  f @@ [use_ssm |-> use_ssm,
              google_api_key |->
                  IF use_ssm /\ "ssm" \notin f.env.fail /\ f.env.google_api_key # "NOT_SET"
                  THEN f.env.google_api_key ELSE "",
              search_history |-> get_search_history(f.db, f.user_id, f.topic,
                                                    f.env.index_last,
                                                    "search_history_read" \in f.env.fail),
              search_query |-> Strip(f.user_message),
              search_terms |-> PlanSearchTerms(f.user_message)]

\* Phase 1 that queries for every planned term
search_phase1_every_term(f) ==
    f @@ [p1 |-> DdgLoop(f.search_terms, 1, f.max_results, f.max_results * 2,
                         f.env.ddg, "search" \in f.env.fail,
                         [all_results |-> <<>>, issued |-> 0, queries |-> <<>>])]

\* Phase 1: initial search (lines 740-749)
search_phase1(f) ==
    f @@ [p1 |-> DdgLoop(Take(f.search_terms, 3), 1, f.max_results, f.max_results * 2,
                         f.env.ddg, "search" \in f.env.fail,
                         [all_results |-> <<>>, issued |-> 0, queries |-> <<>>])]

\* Knowledge Graph, when the first phase found too little (lines 751-760)
search_knowledge_graph(f) ==
    LET use_kg == Len(f.p1.all_results) < f.max_results /\ f.google_api_key # ""
    IN  f @@ [use_kg |-> use_kg,
              after_kg |-> IF use_kg
                           THEN KgLoop(Take(f.search_terms, 2), 1, f.max_results, f.env.kg,
                                       "search" \in f.env.fail, f.p1.all_results)
                           ELSE f.p1.all_results]

\* Phase 2 that stops at 4 x max_results
search_phase2_further(f) ==
    f @@ [p2 |-> IF f.enable_deep_research /\ Len(f.after_kg) > 0
                 THEN DdgLoop(generate_follow_up_queries(f.topic), 1, 2, f.max_results * 4,
                              f.env.ddg, "search" \in f.env.fail,
                              [all_results |-> f.after_kg, issued |-> f.p1.issued,
                               queries |-> <<>>])
                 ELSE [all_results |-> f.after_kg, issued |-> f.p1.issued, queries |-> <<>>]]

\* Phase 2: deep research with follow-up queries (lines 762-774)
search_phase2(f) ==
    f @@ [p2 |-> IF f.enable_deep_research /\ Len(f.after_kg) > 0
                 THEN DdgLoop(generate_follow_up_queries(f.topic), 1, 2, f.max_results * 3,
                              f.env.ddg, "search" \in f.env.fail,
                              [all_results |-> f.after_kg, issued |-> f.p1.issued,
                               queries |-> <<>>])
                 ELSE [all_results |-> f.after_kg, issued |-> f.p1.issued, queries |-> <<>>]]

\* Phase 3: deep crawl of the first three results (lines 776-790)
search_phase3(f) ==
    LET top == Take(f.p2.all_results, 3)
        HasUrl(r) == r.url # ""
        promising == SelectSeq(top, HasUrl)
        promising_urls == IF f.enable_deep_research /\ Len(f.p2.all_results) > 0
                          THEN [i \in 1..Len(promising) |-> promising[i].url]
                          ELSE <<>>
        fetched == [i \in 1..Len(promising_urls) |->
                      crawl_website(promising_urls[i],
                                    IF "crawl" \in f.env.fail THEN {} ELSE f.env.crawlable)]
        Crawled(c) == c # None
    IN  f @@ [promising_urls |-> promising_urls,
              all_results |-> f.p2.all_results \o SelectSeq(fetched, Crawled)]

\* the selection (lines 792-805)
search_select(f) ==
    f @@ [unseen_results |-> get_unseen_results(f.all_results, f.search_history),
          selected_results |-> SelectResults(f.all_results, f.search_history, f.max_results)]

\* saving the selection, and the value returned (lines 807-812)
search_save(f) ==
    [selected |-> f.selected_results,
     searchHistory |->
         IF Len(f.selected_results) > 0
         THEN save_search_results(f.db, f.user_id, f.topic, f.search_query,
                                  f.selected_results, f.now,
                                  "search_history_write" \in f.env.fail)
         ELSE f.db.searchHistory,
     calls |-> {"kv_read"}
               \cup (IF f.use_ssm THEN {"ssm"} ELSE {})
               \cup (IF f.p2.issued > 0 \/ f.use_kg THEN {"search"} ELSE {})
               \cup (IF Len(f.promising_urls) > 0 THEN {"crawl"} ELSE {})
               \cup (IF Len(f.selected_results) > 0 THEN {"kv_write"} ELSE {}),
     all_results |-> f.all_results, phase1 |-> f.p1.queries, phase2 |-> f.p2.queries,
     after_phase1 |-> f.p1.all_results, after_kg |-> f.after_kg,
     after_phase2 |-> f.p2.all_results, crawled |-> f.promising_urls, search_history |-> f.search_history,
     unseen_results |-> f.unseen_results]

\* search_web_for_query(user_message, user_id, topic, max_results,
\* enable_deep_research): the selection it returns, the search-history table
\* after it, and what it did on the way
search_web_for_query(db, user_message, user_id, topic, max_results, enable_deep_research, now, osenv, env) ==
    IF "ssm_client" \in env.fail
    THEN \* boto3.client('ssm') raised: the outer handler returns []
         [selected |-> <<>>, searchHistory |-> db.searchHistory, calls |-> {},
          all_results |-> <<>>, phase1 |-> <<>>, phase2 |-> <<>>, crawled |-> <<>>,
          after_phase1 |-> <<>>, after_kg |-> <<>>, after_phase2 |-> <<>>,
          search_history |-> {}, unseen_results |-> <<>>]
    ELSE search_save(search_select(search_phase3(search_phase2(search_knowledge_graph(
             search_phase1(search_plan(
                 [db |-> db, user_message |-> user_message, user_id |-> user_id,
                  topic |-> topic, max_results |-> max_results,
                  enable_deep_research |-> enable_deep_research, now |-> now,
                  osenv |-> osenv, env |-> env])))))))


(***************************************************************************)
(* Prompt and completion                                                   *)
(***************************************************************************)

\* build_conversation_prompt with the web reference block before the reminders
build_conversation_prompt_web_first(user_message, conversation_history, reminder_context, web_search_results, admin_knowledge, budget_info, budget_summary, now) ==
    LET recent == LastN(conversation_history, PromptTurns)
        Messages(conv) ==
            (IF conv.user_message # ""
             THEN <<[role |-> "user", content |-> conv.user_message]>> ELSE <<>>)
            \o (IF conv.ai_response # ""
                THEN <<[role |-> "assistant", content |-> conv.ai_response]>> ELSE <<>>)
        context_messages == [i \in 1..Len(recent) |-> Messages(recent[i])]
        Flat[i \in 0..Len(recent)] == IF i = 0 THEN <<>> ELSE Flat[i - 1] \o context_messages[i]
        Block(name, value, empty) ==
            IF empty THEN <<>> ELSE <<[section |-> name, body |-> value]>>
        system_prompt == Block("system_prompt", [date |-> now], FALSE)
        web_search_context ==
            Block("web_search_context", web_search_results, Len(web_search_results) = 0)
        budget_context == Block("budget_entry", budget_info, budget_info = None)
                          \o Block("budget_summary", budget_summary, budget_summary = None)
        knowledge_text == Block("admin_knowledge", admin_knowledge, admin_knowledge = {})
        reminder_text == Block("reminder_context", reminder_context, Len(reminder_context) = 0)
        current == Block("user_message", user_message, FALSE)
    IN  Flat[Len(recent)]
        \o <<[role |-> "user",
              content |-> [system_prompt |-> [date |-> now],
                           admin_knowledge |-> admin_knowledge,
                           budget_entry |-> budget_info,
                           budget_summary |-> budget_summary,
                           reminder_context |-> reminder_context,
                           web_search_context |-> web_search_results,
                           user_message |-> user_message,
                           text |-> system_prompt \o knowledge_text \o budget_context \o web_search_context
                                    \o reminder_text \o current]]>>

\* build_conversation_prompt(...): the messages sent to the model.  The last
\* one is the user message that carries the sections: `text` is the f-string
\* of line 910, section by section in the order it joins them, a section that
\* is the empty string adding nothing; the other fields keep each section's
\* content by name
build_conversation_prompt(user_message, conversation_history, reminder_context, web_search_results, admin_knowledge, budget_info, budget_summary, now) ==
    LET recent == LastN(conversation_history, PromptTurns)
        Messages(conv) ==
            (IF conv.user_message # ""
             THEN <<[role |-> "user", content |-> conv.user_message]>> ELSE <<>>)
            \o (IF conv.ai_response # ""
                THEN <<[role |-> "assistant", content |-> conv.ai_response]>> ELSE <<>>)
        context_messages == [i \in 1..Len(recent) |-> Messages(recent[i])]
        Flat[i \in 0..Len(recent)] == IF i = 0 THEN <<>> ELSE Flat[i - 1] \o context_messages[i]
        Block(name, value, empty) ==
            IF empty THEN <<>> ELSE <<[section |-> name, body |-> value]>>
        system_prompt == Block("system_prompt", [date |-> now], FALSE)
        web_search_context ==
            Block("web_search_context", web_search_results, Len(web_search_results) = 0)
        budget_context == Block("budget_entry", budget_info, budget_info = None)
                          \o Block("budget_summary", budget_summary, budget_summary = None)
        knowledge_text == Block("admin_knowledge", admin_knowledge, admin_knowledge = {})
        reminder_text == Block("reminder_context", reminder_context, Len(reminder_context) = 0)
        current == Block("user_message", user_message, FALSE)
    IN  Flat[Len(recent)]
        \o <<[role |-> "user",
              content |-> [system_prompt |-> [date |-> now],
                           admin_knowledge |-> admin_knowledge,
                           budget_entry |-> budget_info,
                           budget_summary |-> budget_summary,
                           reminder_context |-> reminder_context,
                           web_search_context |-> web_search_results,
                           user_message |-> user_message,
                           text |-> system_prompt \o knowledge_text \o budget_context \o reminder_text
                                    \o web_search_context \o current]]>>

CouldNotGenerate == "Sorry, I could not generate a response."
Apology == "I'm sorry, I'm having trouble connecting to my AI service right now. Please try again in a moment."
ReminderNote == "  I've created a reminder for you! I'll remind you about this when it's time."

\* invoke_model that answers a failed call with the could-not-generate text
invoke_model_unexcepted(reply, failed) ==
    IF failed THEN CouldNotGenerate
    ELSE CASE reply.kind = "text" -> reply.text
           [] reply.kind = "no_content" -> CouldNotGenerate
           [] reply.kind = "no_text" -> CouldNotGenerate
           [] OTHER -> CouldNotGenerate

\* bedrock.invoke_model and the parsing of its reply (lines 1853-1875): the text
\* of the first content element; the could-not-generate text when the reply has
\* no 'content' or its first element no 'text'; the apology when anything
\* raises: the call (failed, or a reply of kind "raise"), the JSON decoding, the
\* [0] of an empty 'content'
invoke_model(reply, failed) ==
    IF failed THEN Apology
    ELSE CASE reply.kind = "text" -> reply.text
           [] reply.kind = "no_content" -> CouldNotGenerate
           [] reply.kind = "no_text" -> CouldNotGenerate
           [] reply.kind = "empty_content" -> Apology
           [] OTHER -> Apology

(***************************************************************************)
(* handler                                                                 *)
(***************************************************************************)

\* the answer of an invocation: the HTTP reply, the tables after it, the
\* downstream calls it made, and what the chat path did (None elsewhere)
Outcome(statusCode, body, db, calls, chat) ==
    [statusCode |-> statusCode, body |-> body, db |-> db, calls |-> calls, chat |-> chat]

ErrorBody(text) == [error |-> text]

\* handler, from the verified token on.  The steps below follow the code in its
\* order; each takes the local variables so far as the record f, with f.db the
\* tables as the writes so far have left them, and adds the ones it assigns.

\* user_id, conversation history and reminders (lines 1785-1804)
chat_context(f) ==
    LET user_id == IF f.user_payload.sub = Absent THEN "unknown" ELSE f.user_payload.sub
    IN  f @@ [user_id |-> user_id,
              conversation_history |->
                  IF f.start_new_thread THEN <<>>
                  ELSE get_conversation_history(f.db, user_id, f.topic,
                                                "history_read" \in f.env.fail),
              due_reminders |->
                  get_due_reminders(f.db, user_id, f.now, "reminders_read" \in f.env.fail),
              next_reminder |->
                  get_next_reminder(f.db, user_id, f.now, "next_reminder_read" \in f.env.fail)]

\* admin knowledge commands, only for admin users (lines 1806-1818)
chat_knowledge(f) ==
    LET knowledge_admin == is_admin_knowledge_command(f.user_message)
                           /\ is_user_admin(f.db, f.user_id, "role_knowledge" \in f.env.fail)
        Save(knowledge_to_save) ==
            IF knowledge_admin /\ knowledge_to_save # ""
            THEN save_admin_knowledge(f.db, knowledge_to_save, f.now,
                                      "knowledge_write" \in f.env.fail)
            ELSE [adminKnowledge |-> f.db.adminKnowledge, saved |-> FALSE]
    IN  f @@ [knowledge |-> Save(extract_knowledge_from_command(f.user_message))]

\* budget tracking commands, only for admin users (lines 1820-1833)
chat_budget(f) ==
    LET db1 == [f.db EXCEPT !.adminKnowledge = f.knowledge.adminKnowledge]
        budget_admin == is_budget_command(f.user_message)
                        /\ is_user_admin(db1, f.user_id, "role_budget" \in f.env.fail)
        Save(budget_info) ==
            [budget_info |-> budget_info,
             budget_save |->
                 IF budget_admin /\ Truthy(budget_info.amount)
                 THEN save_budget_entry(db1, f.user_id, budget_info, f.now,
                                        "budget_write" \in f.env.fail)
                      @@ [called |-> TRUE]
                 ELSE [budget |-> db1.budget, saved |-> FALSE, called |-> FALSE]]
    IN  [f EXCEPT !.db = db1]
        @@ Save(IF budget_admin THEN extract_budget_info(f.user_message, f.now) ELSE None)

\* admin knowledge and budget summary for the prompt (lines 1836-1841)
chat_summary(f) ==
    LET db2 == [f.db EXCEPT !.budget = f.budget_save.budget]
    IN  [f EXCEPT !.db = db2]
        @@ [admin_knowledge |-> get_admin_knowledge(db2, "knowledge_read" \in f.env.fail),
            budget_summary_called |->
                is_user_admin(db2, f.user_id, "role_summary" \in f.env.fail)
                /\ ContainsAny(Lower(f.user_message), BudgetQueryWords),
            budget_summary |->
                IF is_user_admin(db2, f.user_id, "role_summary" \in f.env.fail)
                   /\ ContainsAny(Lower(f.user_message), BudgetQueryWords)
                THEN get_budget_summary(db2, "budget_read" \in f.env.fail)
                ELSE None]

\* web research (line 1846)
chat_search(f) ==
    f @@ [search |-> search_web_for_query(f.db, f.user_message, f.user_id, f.topic, 8, TRUE,
                                          f.now, f.osenv, f.env)]

\* prompt and model call (lines 1850-1875)
chat_model(f) ==
    LET db3 == [f.db EXCEPT !.searchHistory = f.search.searchHistory]
        reminder_context == [i \in 1..Len(f.due_reminders) |-> f.due_reminders[i].reminder_text]
    IN  [f EXCEPT !.db = db3]
        @@ [prompt |-> build_conversation_prompt(f.user_message, f.conversation_history,
                                                 reminder_context, f.search.selected,
                                                 f.admin_knowledge, f.budget_info,
                                                 f.budget_summary, f.now),
            model_response |-> invoke_model(f.env.model, "model" \in f.env.fail)]

\* reminder requests (lines 1877-1882)
chat_reminder(f) ==
    LET wants_reminder == ContainsAny(Lower(f.user_message), ReminderPhrases)
    IN  f @@ [reminder |->
                  IF wants_reminder
                  THEN create_reminder(f.db, f.user_id, f.user_message, f.now,
                                       "reminder_write" \in f.env.fail)
                  ELSE [reminders |-> f.db.reminders, id |-> None]]

\* the thread of the turn (lines 1884-1892)
chat_thread(f) ==
    LET db4 == [f.db EXCEPT !.reminders = f.reminder.reminders]
    IN  [f EXCEPT !.db = db4]
        @@ [ai_response |-> IF f.reminder.id # None THEN f.model_response \o ReminderNote
                            ELSE f.model_response,
            thread_id |-> IF f.start_new_thread THEN NewThreadId(f.user_id, f.topic, f.now)
                          ELSE get_or_create_thread_id(db4, f.user_id, f.topic, f.now,
                                                       "thread_read" \in f.env.fail)]

\* store the turn (lines 1894-1909)
chat_store(f) ==
    LET conversation_item == [user_id |-> f.user_id, conversation_id |-> ConversationId(f.now),
                              thread_id |-> f.thread_id, topic |-> f.topic,
                              timestamp |-> f.now, user_message |-> f.user_message,
                              ai_response |-> f.ai_response, ttl |-> f.now + DaySeconds * 30]
        stored == "conversation_write" \notin f.env.fail
    IN  [f EXCEPT !.db = IF stored
                         THEN [f.db EXCEPT !.conversations =
                                  PutItem(f.db.conversations, conversation_item,
                                          ConversationKey)]
                         ELSE f.db]
        @@ [stored |-> stored]

\* the response (lines 1911-1929)
chat_return(f) ==
    Outcome(200,
            [response |-> f.ai_response, user_id |-> f.user_id, thread_id |-> f.thread_id,
             topic |-> f.topic, timestamp |-> f.now, reminder_created |-> f.reminder.id,
             due_reminders_count |-> Len(f.due_reminders), next_reminder |-> f.next_reminder],
            f.db,
            {"jwks", "kv_read", "model", "kv_write"} \cup f.search.calls,
            [user_id |-> f.user_id, prompt |-> f.prompt, stored |-> f.stored,
             knowledge_saved |-> f.knowledge.saved, budget_saved |-> f.budget_save.saved,
             budget_info |-> f.budget_info, budget_summary |-> f.budget_summary,
             budget_save_called |-> f.budget_save.called,
             budget_summary_called |-> f.budget_summary_called,
             search |-> [selected |-> f.search.selected]])

\* the chat path up to the choice of the thread (lines 1785-1892)
chat_begin(f) ==
    chat_thread(chat_reminder(chat_model(chat_search(chat_summary(chat_budget(
        chat_knowledge(chat_context(f))))))))

\* the chat path from the put of the turn on (lines 1894-1929)
chat_finish(f) == chat_return(chat_store(f))

\* the chat path of handler (lines 1785-1929)
chat(user_payload, user_message, start_new_thread, topic, env, now, osenv, db) ==
    chat_finish(chat_begin(
        [user_payload |-> user_payload, user_message |-> user_message,
         start_new_thread |-> start_new_thread, topic |-> topic, env |-> env,
         now |-> now, osenv |-> osenv, db |-> db]))

(***************************************************************************)
(* Admin endpoints                                                         *)
(***************************************************************************)

\* mark_reminder_completed that writes the item anew, with its key and status
mark_reminder_completed_put(db, user_id, reminder_id, failed) ==
    IF failed THEN [reminders |-> db.reminders, ok |-> FALSE]
    ELSE [reminders |->
              PutItem(db.reminders,
                      [user_id |-> user_id, reminder_id |-> reminder_id,
                       status |-> "completed"],
                      ReminderKey),
          ok |-> TRUE]

\* mark_reminder_completed(reminder_id, user_id): update_item with SET status;
\* the other attributes of the item stay, and an item is created, of the key
\* and the status alone, when the table has none of the key.  No code of the
\* Lambda calls it.
mark_reminder_completed(db, user_id, reminder_id, failed) ==
    IF failed THEN [reminders |-> db.reminders, ok |-> FALSE]
    ELSE IF \E r \in db.reminders : r.user_id = user_id /\ r.reminder_id = reminder_id
    THEN [reminders |->
              {IF r.user_id = user_id /\ r.reminder_id = reminder_id
               THEN [r EXCEPT !.status = "completed"] ELSE r : r \in db.reminders},
          ok |-> TRUE]
    ELSE [reminders |->
              db.reminders \cup {[user_id |-> user_id, reminder_id |-> reminder_id,
                                  status |-> "completed"]},
          ok |-> TRUE]

\* str.startswith
StartsWith(s, p) == Slice(s, 1, Len(p)) = p

RECURSIVE LastSegment(_)
\* path.split('/')[-1]
LastSegment(path) ==
    IF Contains(path, "/") THEN LastSegment(Slice(path, Find(path, "/") + 1, Len(path)))
    ELSE path

\* str(e) of an exception raised by a table call
ExceptionText == "ResourceNotFoundException"
\* str(e) of the TypeError json.dumps raises for a Decimal
DecimalText == "Object of type Decimal is not JSON serializable"
\* str(e) of the error json.loads raises for a body that is no JSON text
JsonText == "Expecting value"

\* json.dumps of items read from a table raises TypeError when an item holds a
\* number: the table resource returns numbers as Decimal
JsonDumpsRaises(items) == \E x \in items : "ttl" \in DOMAIN x

\* os.environ.get('ADMIN_API_KEY', 'admin-key-2024')
DefaultAdminKey == "admin-key-2024"

\* verify_admin_key that takes a request without a key for a keyed one
verify_admin_key_or_none(admin_key, osenv) ==
    admin_key \in {"", IF "ADMIN_API_KEY" \in DOMAIN osenv THEN osenv.ADMIN_API_KEY
                       ELSE DefaultAdminKey}

\* verify_admin_key(admin_key)
verify_admin_key(admin_key, osenv) ==
    admin_key = (IF "ADMIN_API_KEY" \in DOMAIN osenv THEN osenv.ADMIN_API_KEY
                 ELSE DefaultAdminKey)

\* the primary key of the users table
UsersKey == {"user_id", "created_at"}

\* f"user_{int(datetime.utcnow().timestamp())}"
UserId(now) == "user_" \o ToString(now)

\* create_user_profile(email, name, role, notes): the table after it and the new
\* user_id, None when put_item raises (ok tells which); ttl one year
create_user_profile(db, email, name, role, notes, now, failed) ==
    IF failed THEN [users |-> db.users, id |-> None, ok |-> FALSE]
    ELSE [users |-> PutItem(db.users,
                            [user_id |-> UserId(now), email |-> email, name |-> name,
                             role |-> role, notes |-> notes, created_at |-> now,
                             last_active |-> None, status |-> "active",
                             ttl |-> now + DaySeconds * 365],
                            UsersKey),
          id |-> UserId(now), ok |-> TRUE]

\* get_all_users(): the scanned users; [] when the scan or a count query raises
get_all_users(db, failed) == IF failed THEN {} ELSE db.users

\* get_user_by_id(user_id): the item, None when there is none or a call raises
get_user_by_id(db, user_id, failed) ==
    IF failed \/ ~\E u \in db.users : u.user_id = user_id THEN None
    ELSE CHOOSE u \in db.users : u.user_id = user_id

\* delete_user(user_id): the users item, then the conversations, then the
\* reminders, then the tasks of the user; a call that raises ends it with False
\* and leaves what was deleted before deleted
delete_user(db, user_id, fail) ==
    LET no_user == [db EXCEPT !.users = {u \in db.users : u.user_id # user_id}]
        no_turns == [no_user EXCEPT
                        !.conversations = {x \in db.conversations : x.user_id # user_id}]
        no_reminders == [no_turns EXCEPT
                            !.reminders = {x \in db.reminders : x.user_id # user_id}]
    IN  IF "users_delete" \in fail THEN [db |-> db, ok |-> FALSE]
        ELSE IF "admin_conversations" \in fail THEN [db |-> no_user, ok |-> FALSE]
        ELSE IF "admin_reminders" \in fail THEN [db |-> no_turns, ok |-> FALSE]
        ELSE IF "admin_tasks" \in fail THEN [db |-> no_reminders, ok |-> FALSE]
        ELSE [db |-> no_reminders, ok |-> TRUE]

\* get_system_stats(): counts of the scanned tables, zeros when a scan raises
get_system_stats(db, failed) ==
    IF failed
    THEN [total_users |-> 0, active_users |-> 0, total_conversations |-> 0,
          total_reminders |-> 0]
    ELSE [total_users |-> Cardinality(db.users), active_users |-> 0,
          total_conversations |-> Cardinality(db.conversations),
          total_reminders |-> Cardinality({x \in db.reminders : x.status = "pending"})]

\* cleanup_old_data(): deletes the conversations older than 30 days and the
\* completed reminders created more than 30 days ago; a scan that raises ends it
cleanup_old_data(db, now, failed) ==
    IF failed THEN [db |-> db, cleaned_items |-> 0]
    ELSE LET cutoff_time == now - DaySeconds * 30
             old_turns == {x \in db.conversations : x.timestamp < cutoff_time}
             old_reminders == {x \in db.reminders :
                                  x.status = "completed" /\ x.created_at < cutoff_time}
         IN  [db |-> [db EXCEPT !.conversations = db.conversations \ old_turns,
                                !.reminders = db.reminders \ old_reminders],
              cleaned_items |-> Cardinality(old_turns) + Cardinality(old_reminders)]

\* the reply of an admin endpoint
AdminReply(statusCode, body, db, calls) == Outcome(statusCode, body, db, calls, None)

\* handle_admin_request(event, context), after the key check (lines 1339-1608)
admin_route(event, env, now, db) ==
    LET path == event.path
        method == event.httpMethod
        body == event.body
        Unparsed == body.kind \in {"null", "malformed"}
        Has(key) == body.kind = "object" /\ key \in body.keys
        InternalError == AdminReply(500, ErrorBody("Internal server error"), db, {})
    IN  IF path = "/admin/users" /\ method = "GET"
        THEN IF JsonDumpsRaises(get_all_users(db, "users_scan" \in env.fail))
             THEN AdminReply(500, ErrorBody("Internal server error"), db, {"kv_read"})
             ELSE AdminReply(200, [users |-> get_all_users(db, "users_scan" \in env.fail)],
                             db, {"kv_read"})
        ELSE IF path = "/admin/users" /\ method = "POST"
        THEN IF Unparsed THEN InternalError
             ELSE IF ~Has("email") \/ body.email = ""
             THEN AdminReply(400, ErrorBody("Email is required"), db, {})
             ELSE LET Reply(created) ==
                          IF created.ok
                          THEN AdminReply(201, [message |-> "User created successfully",
                                                user_id |-> created.id],
                                          [db EXCEPT !.users = created.users], {"kv_write"})
                          ELSE AdminReply(500, ErrorBody("Failed to create user"), db,
                                          {"kv_write"})
                  IN  Reply(create_user_profile(db, body.email,
                                                IF Has("name") THEN body.name ELSE "",
                                                IF Has("role") THEN body.role ELSE "user",
                                                IF Has("notes") THEN body.notes ELSE "",
                                                now, "users_write" \in env.fail))
        ELSE IF StartsWith(path, "/admin/users/") /\ method = "GET"
        THEN LET Reply(user) ==
                     IF user = None
                     THEN AdminReply(404, ErrorBody("User not found"), db, {"kv_read"})
                     ELSE IF JsonDumpsRaises({user})
                     THEN AdminReply(500, ErrorBody("Internal server error"), db, {"kv_read"})
                     ELSE AdminReply(200, [user |-> user], db, {"kv_read"})
             IN  Reply(get_user_by_id(db, LastSegment(path), "users_get" \in env.fail))
        ELSE IF StartsWith(path, "/admin/users/") /\ method = "DELETE"
        THEN LET Reply(deleted) ==
                     IF deleted.ok
                     THEN AdminReply(200, [message |-> "User deleted successfully"],
                                     deleted.db, {"kv_read", "kv_write"})
                     ELSE AdminReply(500, ErrorBody("Failed to delete user"), deleted.db,
                                     {"kv_read", "kv_write"})
             IN  Reply(delete_user(db, LastSegment(path), env.fail))
        ELSE IF path = "/admin/stats" /\ method = "GET"
        THEN AdminReply(200, get_system_stats(db, "stats_scan" \in env.fail), db, {"kv_read"})
        ELSE IF path = "/admin/knowledge" /\ method = "GET"
        THEN IF "knowledge_scan" \in env.fail
             THEN AdminReply(500, ErrorBody("Failed to retrieve knowledge: " \o ExceptionText),
                             db, {"kv_read"})
             ELSE IF JsonDumpsRaises(db.adminKnowledge)
             THEN AdminReply(500, ErrorBody("Failed to retrieve knowledge: " \o DecimalText),
                             db, {"kv_read"})
             ELSE AdminReply(200, [knowledge |-> db.adminKnowledge], db, {"kv_read"})
        ELSE IF path = "/admin/knowledge" /\ method = "POST"
        THEN IF Unparsed
             THEN AdminReply(500, ErrorBody("Failed to add knowledge: " \o JsonText), db, {})
             ELSE IF ~Has("knowledge") \/ Strip(body.knowledge) = ""
             THEN AdminReply(400, ErrorBody("Knowledge text is required"), db, {})
             ELSE LET Reply(saving) ==
                          IF saving.saved
                          THEN AdminReply(200, [message |-> "Knowledge added successfully"],
                                          [db EXCEPT !.adminKnowledge = saving.adminKnowledge],
                                          {"kv_write"})
                          ELSE AdminReply(500, ErrorBody("Failed to save knowledge"), db,
                                          {"kv_write"})
                  IN  Reply(save_admin_knowledge(db, Strip(body.knowledge), now,
                                                 "knowledge_write" \in env.fail))
        ELSE IF StartsWith(path, "/admin/knowledge/") /\ method = "DELETE"
        THEN IF "knowledge_delete" \in env.fail
             THEN AdminReply(500, ErrorBody("Failed to delete knowledge: " \o ExceptionText),
                             db, {"kv_write"})
             ELSE AdminReply(200, [message |-> "Knowledge deleted successfully"],
                             [db EXCEPT !.adminKnowledge =
                                 {x \in db.adminKnowledge :
                                     x.knowledge_id # LastSegment(path)}],
                             {"kv_write"})
        ELSE IF path = "/admin/cleanup" /\ method = "POST"
        THEN LET Reply(cleaned) ==
                     AdminReply(200, [message |-> "Cleanup completed",
                                      cleaned_items |-> cleaned.cleaned_items],
                                cleaned.db, {"kv_read", "kv_write"})
             IN  Reply(cleanup_old_data(db, now, "cleanup_scan" \in env.fail))
        ELSE AdminReply(404, ErrorBody("Admin endpoint not found"), db, {})

\* handle_admin_request(event, context)
handle_admin_request(event, env, now, osenv, db) ==
    LET headers == event.headers
        \* headers.get('X-Admin-Key', '') or headers.get('x-admin-key', '')
        admin_key == IF headers.X_Admin_Key # "" THEN headers.X_Admin_Key
                     ELSE headers.x_admin_key
    IN  IF ~verify_admin_key(admin_key, osenv)
        THEN AdminReply(401, ErrorBody("Invalid admin API key"), db, {})
        ELSE admin_route(event, env, now, db)

\* handle_admin_status_check(event, context)
handle_admin_status_check(event, env, osenv, db) ==
    LET auth_header == event.headers.Authorization
        Reply(payload) ==
            IF payload = None
            THEN AdminReply(401, ErrorBody("Invalid token"), db, {"jwks"})
            ELSE IF payload.sub \in {Absent, ""}
            THEN AdminReply(401, ErrorBody("No user ID in token"), db, {"jwks"})
            ELSE AdminReply(200, [is_admin |-> is_user_admin(db, payload.sub,
                                                             "role_status" \in env.fail),
                                  user_id |-> payload.sub],
                            db, {"jwks", "kv_read"})
    IN  IF auth_header.scheme # "Bearer"
        THEN AdminReply(401, ErrorBody("No valid authorization header"), db, {})
        ELSE Reply(verify_jwt_token(auth_header.token, osenv.COGNITO_USER_POOL_ID,
                                    env.jwks, osenv))

\* handler that authenticates the caller before it looks at the message
handler_auth_first(event, env, now, osenv, db) ==
    IF event.httpMethod = "OPTIONS" THEN Outcome(200, [text |-> ""], db, {}, None)
    ELSE IF event.body.kind \in {"null", "malformed", "array"}
    THEN Outcome(500, ErrorBody("Internal server error"), db, {}, None)
    ELSE
    LET Has(key) == event.body.kind = "object" /\ key \in event.body.keys
        user_message == IF Has("message") THEN event.body.message ELSE ""
        start_new_thread == IF Has("start_new_thread") THEN event.body.start_new_thread
                            ELSE FALSE
        topic == IF Has("topic") THEN event.body.topic ELSE "General"
        auth_header == event.headers.Authorization
        user_pool_id == osenv.COGNITO_USER_POOL_ID
        user_payload == verify_jwt_token(auth_header.token, user_pool_id, env.jwks, osenv)
    IN  IF auth_header.scheme # "Bearer"
        THEN Outcome(401, ErrorBody("No valid authorization token provided"), db, {}, None)
        ELSE IF user_pool_id = ""
        THEN Outcome(500, ErrorBody("User pool configuration missing"), db, {}, None)
        ELSE IF user_payload = None
        THEN Outcome(401, ErrorBody("Invalid or expired token"), db, {"jwks"}, None)
        ELSE IF user_message = ""
        THEN Outcome(400, ErrorBody("No message provided"), db, {"jwks"}, None)
        ELSE chat(user_payload, user_message, start_new_thread, topic, env, now, osenv, db)

\* handler(event, context)
handler(event, env, now, osenv, db) ==
    IF event.httpMethod = "OPTIONS" THEN Outcome(200, [text |-> ""], db, {}, None)
    ELSE IF event.path = "/admin/check-status"
    THEN handle_admin_status_check(event, env, osenv, db)
    ELSE IF StartsWith(event.path, "/admin")
    THEN handle_admin_request(event, env, now, osenv, db)
    \* json.loads(event.get('body', '{}')) or body.get raises: the outer except
    ELSE IF event.body.kind \in {"null", "malformed", "array"}
    THEN Outcome(500, ErrorBody("Internal server error"), db, {}, None)
    ELSE
    LET \* body.get(key, default); an event without a body stands for '{}'
        Has(key) == event.body.kind = "object" /\ key \in event.body.keys
        user_message == IF Has("message") THEN event.body.message ELSE ""
        start_new_thread == IF Has("start_new_thread") THEN event.body.start_new_thread
                            ELSE FALSE
        topic == IF Has("topic") THEN event.body.topic ELSE "General"
        auth_header == event.headers.Authorization
        user_pool_id == osenv.COGNITO_USER_POOL_ID
        user_payload == verify_jwt_token(auth_header.token, user_pool_id, env.jwks, osenv)
    IN  IF user_message = ""
        THEN Outcome(400, ErrorBody("No message provided"), db, {}, None)
        ELSE IF auth_header.scheme # "Bearer"
        THEN Outcome(401, ErrorBody("No valid authorization token provided"), db, {}, None)
        ELSE IF user_pool_id = ""
        THEN Outcome(500, ErrorBody("User pool configuration missing"), db, {}, None)
        ELSE IF user_payload = None
        THEN Outcome(401, ErrorBody("Invalid or expired token"), db, {"jwks"}, None)
        ELSE chat(user_payload, user_message, start_new_thread, topic, env, now, osenv, db)


(***************************************************************************)
(* Requests and the world around them                                      *)
(***************************************************************************)
MaxRequests == 3
MaxClock == 1800

PoolId == "us-west-2_pool"
ClientId == "app-client"

\* os.environ of a deployed Lambda
Deployed == [COGNITO_USER_POOL_ID |-> PoolId, COGNITO_USER_POOL_CLIENT_ID |-> ClientId,
             GOOGLE_API_KEY_PARAM |-> ""]

\* the payload of an access token of the pool for user sub
AccessPayload(sub) == [sub |-> sub, iss |-> ExpectedIssuer(PoolId), client_id |-> ClientId,
                       token_use |-> "access"]

\* an access token the pool issued for sub, signed by its key k1
GoodToken(sub) == [wellFormed |-> TRUE, kid |-> "k1", signatureValid |-> TRUE,
                   expired |-> FALSE, payload |-> AccessPayload(sub)]

NoAuthorization == [scheme |-> "", token |-> None]
Basic == [scheme |-> "Basic", token |-> None]
Bearer(token) == [scheme |-> "Bearer", token |-> token]

\* the body '{"message": ..., "start_new_thread": ..., "topic": ...}'
JsonBody(message, start_new_thread, topic) ==
    [kind |-> "object", keys |-> {"message", "start_new_thread", "topic"},
     message |-> message, start_new_thread |-> start_new_thread, topic |-> topic]

\* an API Gateway proxy event for POST /ai
ChatEvent(authorization, body) ==
    [httpMethod |-> "POST", path |-> "/ai", headers |-> [Authorization |-> authorization],
     body |-> body]

\* a world in which every call succeeds and the search finds nothing
Quiet == [jwks |-> Jwks({"k1", "k2"}), fail |-> {}, ddg |-> <<>>, kg |-> <<>>,
          crawlable |-> {}, google_api_key |-> "NOT_SET", index_last |-> {},
          model |-> [kind |-> "text", text |-> "Sure."]]

\* the users table: alice is an admin, bob a user, carol has no item
SeedUsers == {[user_id |-> "alice", role |-> "admin", created_at |-> 0, ttl |-> DaySeconds * 365],
              [user_id |-> "bob", role |-> "user", created_at |-> 0, ttl |-> DaySeconds * 365]}

\* one invocation of handler(event, context)
Invoke(event, env) ==
    /\ Len(log) < MaxRequests
    /\ LET Return(out) ==
               /\ users' = out.db.users
               /\ conversations' = out.db.conversations
               /\ reminders' = out.db.reminders
               /\ adminKnowledge' = out.db.adminKnowledge
               /\ budget' = out.db.budget
               /\ searchHistory' = out.db.searchHistory
               /\ log' = Append(log, [event |-> event, env |-> env, at |-> clock,
                                      before |-> DB,
                                      statusCode |-> out.statusCode, body |-> out.body,
                                      calls |-> out.calls, chat |-> out.chat])
       IN  Return(handler(event, env, clock, environ, DB))
    /\ UNCHANGED <<clock, environ, arg, ret>>

\* time passes
Tick(d) ==
    /\ clock + d <= MaxClock
    /\ clock' = clock + d
    /\ UNCHANGED <<environ, users, conversations, reminders, adminKnowledge, budget,
                   searchHistory, log, arg, ret>>

EmptyTables ==
    /\ users = SeedUsers
    /\ conversations = {}
    /\ reminders = {}
    /\ adminKnowledge = {}
    /\ budget = {}
    /\ searchHistory = {}

(***************************************************************************)
(* Spec: the turns and threads of one user, alice, over several requests   *)
(***************************************************************************)
Topics == {"General", "Work"}

\* what alice sends: a greeting on either topic, a reminder request, or a
\* greeting that asks for a new thread
TurnEvents ==
    {ChatEvent(Bearer(GoodToken("alice")), JsonBody("hi", FALSE, t)) : t \in Topics}
    \cup {ChatEvent(Bearer(GoodToken("alice")), JsonBody("Remind me to", FALSE, "General")),
          ChatEvent(Bearer(GoodToken("alice")), JsonBody("hi", TRUE, "General"))}

\* the time between two requests: ten minutes (three of them make the thread
\* window exactly), or a second less than the thread window
Steps == {ThreadWindow \div 3, ThreadWindow - 1}

Init ==
    /\ clock = 0
    /\ environ = Deployed
    /\ EmptyTables
    /\ log = <<>>
    /\ arg = None
    /\ ret = None

Next ==
    \/ \E event \in TurnEvents : Invoke(event, Quiet)
    \/ \E d \in Steps : Tick(d)

Spec == Init /\ [][Next]_vars

\* the requests of the log that stored a turn
Stored(i) == log[i].statusCode = 200 /\ log[i].chat.stored

\* the request that wrote the stored turn x: the last one that put an item
\* under x's key
WriterOf(x) ==
    LET Wrote(i) == Stored(i) /\ log[i].at = x.timestamp /\ log[i].chat.user_id = x.user_id
    IN  log[CHOOSE i \in DOMAIN log : Wrote(i) /\ \A j \in DOMAIN log : j > i => ~Wrote(j)]

\* a and b are stored turns of the same user and topic with no stored turn of
\* that user and topic between them
Consecutive(a, b) ==
    /\ a.user_id = b.user_id /\ a.topic = b.topic /\ a.timestamp < b.timestamp
    /\ ~\E c \in conversations : /\ c.user_id = a.user_id /\ c.topic = a.topic
                                 /\ a.timestamp < c.timestamp /\ c.timestamp < b.timestamp

\* some stored turn of the user, on another topic, lies between a and b
OtherTopicBetween(a, b) ==
    \E c \in conversations : /\ c.user_id = a.user_id /\ c.topic # a.topic
                             /\ a.timestamp < c.timestamp /\ c.timestamp < b.timestamp

\* no two requests of the log were handled in the same clock second
DistinctSeconds == \A i \in DOMAIN log : \A j \in DOMAIN log : i # j => log[i].at # log[j].at

\* C5: of two consecutive stored turns of one (user_id, topic), the second made
\* without start_new_thread, the second has the thread of the first when less
\* than 1800 seconds lie between them and a newly minted thread otherwise,
\* whatever turns on other topics were stored between them (stated here for
\* the runs in which every request has a clock second of its own)
C5_ThreadReuse ==
    DistinctSeconds =>
    \A a \in conversations : \A b \in conversations :
        (Consecutive(a, b) /\ ~WriterOf(b).event.body.start_new_thread)
        => IF b.timestamp - a.timestamp < ThreadWindow
           THEN b.thread_id = a.thread_id
           ELSE b.thread_id = NewThreadId(b.user_id, b.topic, b.timestamp)

\* the same, for the pairs of turns with no turn on another topic between them
C5_ThreadReuseSameTopic ==
    DistinctSeconds =>
    \A a \in conversations : \A b \in conversations :
        (Consecutive(a, b) /\ ~OtherTopicBetween(a, b)
         /\ ~WriterOf(b).event.body.start_new_thread)
        => IF b.timestamp - a.timestamp < ThreadWindow
           THEN b.thread_id = a.thread_id
           ELSE b.thread_id = NewThreadId(b.user_id, b.topic, b.timestamp)

\* C7: a request that stores a turn leaves every turn stored before it as it
\* was, also when it is handled in the clock second of an earlier one
C7_NeverOverwritten == [][\A x \in conversations : x \in conversations']_vars

\* C8: every turn that get_conversation_history returns for a topic carries
\* the message of the request that wrote it and the response text that request
\* returned to its caller
C8_RoundTrip ==
    \A t \in Topics :
        LET history == get_conversation_history(DB, "alice", t, FALSE)
        IN  \A k \in 1..Len(history) :
                \E x \in conversations :
                    /\ x.user_id = "alice" /\ x.topic = t
                    /\ x.timestamp = history[k].timestamp
                    /\ history[k].user_message = WriterOf(x).event.body.message
                    /\ history[k].ai_response = WriterOf(x).body.response

\* C8 happens: the history of a topic returns a greeting and a reminder
\* request, the latter with the reminder note the caller was given
C8_Witness ==
    LET history == get_conversation_history(DB, "alice", "General", FALSE)
    IN  /\ Len(history) = 2
        /\ history[1].user_message = "hi" /\ history[1].ai_response = "Sure."
        /\ history[2].user_message = "Remind me to"
        /\ history[2].ai_response = "Sure." \o ReminderNote
        /\ \E i \in DOMAIN log : log[i].body.response = history[2].ai_response


(***************************************************************************)
(* SpecJwt: verify_jwt_token applied to one token, whatever the token, the *)
(* key set the pool answers with and the configured client id              *)
(***************************************************************************)

\* nothing returned yet
Pending == [pending |-> TRUE]

\* the tokens presented: not a JWT at all, or a JWT with any header kid,
\* signature, expiry, issuer, client_id and token_use
JwtTokens ==
    {[wellFormed |-> FALSE, kid |-> NoKid, signatureValid |-> FALSE, expired |-> FALSE,
      payload |-> None]}
    \cup {[wellFormed |-> TRUE, kid |-> kid, signatureValid |-> sig, expired |-> ex,
           payload |-> [sub |-> "alice", iss |-> iss, client_id |-> cid, token_use |-> use]] :
            kid \in {"k1", "k9", NoKid}, sig \in BOOLEAN, ex \in BOOLEAN,
            iss \in {ExpectedIssuer(PoolId), ExpectedIssuer("us-west-2_other")},
            cid \in {ClientId, "other-client", Absent},
            use \in {"access", "id", Absent}}

\* what the JWKS endpoint answers
JwksReplies == {JwksDown, JwksNoKeys, Jwks({}), Jwks({"k1", "k2"})}

InitJwt ==
    /\ clock = 0
    /\ \E cid \in {ClientId, Absent} :
           environ = [Deployed EXCEPT !.COGNITO_USER_POOL_CLIENT_ID = cid]
    /\ EmptyTables
    /\ log = <<>>
    /\ \E token \in JwtTokens : \E jwks \in JwksReplies : arg = [token |-> token, jwks |-> jwks]
    /\ ret = Pending

\* the call verify_jwt_token(token, user_pool_id)
Verify ==
    /\ ret = Pending
    /\ ret' = [value |-> verify_jwt_token(arg.token, environ.COGNITO_USER_POOL_ID,
                                          arg.jwks, environ)]
    /\ UNCHANGED <<clock, environ, users, conversations, reminders, adminKnowledge, budget,
                   searchHistory, log, arg>>

NextJwt == Verify

SpecJwt == InitJwt /\ [][NextJwt]_vars

\* C3: verify_jwt_token returns either None or the token's claims, and the
\* claims only when the header's kid is a key of the fetched key set, the
\* signature and issuer verify, client_id is the configured client id and
\* token_use is 'access'
C3_VerifiedOnly ==
    ret # Pending =>
        /\ ret.value = None \/ ret.value = arg.token.payload
        /\ ret.value # None =>
               /\ arg.jwks.status = "ok"
               /\ arg.token.wellFormed
               /\ arg.token.kid # NoKid /\ arg.token.kid \in arg.jwks.keys
               /\ arg.token.signatureValid
               /\ arg.token.payload.iss = ExpectedIssuer(environ.COGNITO_USER_POOL_ID)
               /\ arg.token.payload.client_id = environ.COGNITO_USER_POOL_CLIENT_ID
               /\ arg.token.payload.token_use = "access"

\* C3 happens: an ID token of the pool, signed by a key of the set and
\* carrying the configured client id, is answered with None
C3_Witness ==
    /\ ret # Pending /\ ret.value = None
    /\ arg.jwks = Jwks({"k1", "k2"})
    /\ arg.token.wellFormed /\ arg.token.kid = "k1" /\ arg.token.signatureValid
    /\ ~arg.token.expired
    /\ arg.token.payload.iss = ExpectedIssuer(PoolId)
    /\ arg.token.payload.client_id = ClientId /\ environ.COGNITO_USER_POOL_CLIENT_ID = ClientId
    /\ arg.token.payload.token_use = "id"


(***************************************************************************)
(* SpecRequest: handler applied to one request, whatever the request and   *)
(* whatever the world answers                                              *)
(***************************************************************************)
MaxFailures == 2

\* the calls of the chat path that can raise
FailureNames ==
    {"history_read", "reminders_read", "next_reminder_read", "role_knowledge",
     "knowledge_write", "role_budget", "budget_write", "knowledge_read", "role_summary",
     "budget_read", "model", "reminder_write", "thread_read", "conversation_write",
     "ssm_client", "ssm", "search_history_read", "search", "crawl", "search_history_write"}

RECURSIVE SubsetsUpTo(_, _)
\* the subsets of F of at most n elements
SubsetsUpTo(F, n) ==
    IF n = 0 THEN {{}}
    ELSE LET smaller == SubsetsUpTo(F, n - 1)
         IN  smaller \cup {S \cup {x} : S \in smaller, x \in F}

\* the failures of one request: a few calls raise, or every call does
FailureSets == SubsetsUpTo(FailureNames, MaxFailures) \cup {FailureNames}

\* a message that is at once a reminder request, a knowledge command, a
\* budget command with an amount and a question about the budget
BusyMessage == "Remind me to remember that I spent $5 of the budget"

\* an event without a 'body' key, and bodies without or with an empty message
NoBody == [kind |-> "absent"]
EmptyObject == [kind |-> "object", keys |-> {}]
NoMessageBody == [kind |-> "object", keys |-> {"topic"}, topic |-> "Work"]
EmptyMessageBody == JsonBody("", FALSE, "General")
\* a body that is not JSON text, and the body null of a request sent without one
Malformed == [kind |-> "malformed"]
NullBody == [kind |-> "null"]

\* tokens that do not verify against Jwks({"k1", "k2"})
BadTokens ==
    {[wellFormed |-> FALSE, kid |-> NoKid, signatureValid |-> FALSE, expired |-> FALSE,
      payload |-> None],
     [GoodToken("alice") EXCEPT !.kid = "k9"],
     [GoodToken("alice") EXCEPT !.signatureValid = FALSE],
     [GoodToken("alice") EXCEPT !.expired = TRUE],
     [GoodToken("alice") EXCEPT !.payload.client_id = "other-client"],
     [GoodToken("alice") EXCEPT !.payload.token_use = "id"]}

\* os.environ with the parameter of the Google key named
DeployedWithKey == [Deployed EXCEPT !.GOOGLE_API_KEY_PARAM = "/search/google_api_key"]

\* a world whose search backends answer: one link, one related topic, one
\* entity of the knowledge graph, pages that can be fetched
Busy ==
    [jwks |-> Jwks({"k1", "k2"}), fail |-> {},
     ddg |-> <<[instant_ok |-> TRUE, abstract |-> None,
                related |-> <<[Text |-> "a topic", FirstURL |-> "u1"]>>,
                html_ok |-> TRUE,
                links |-> <<[title |-> "a page", url |-> "u2", snippet |-> ""]>>]>>,
     kg |-> <<[ok |-> TRUE,
               items |-> <<[name |-> "an entity", description |-> "known", url |-> "u3"]>>]>>,
     crawlable |-> {"u1", "u2"}, google_api_key |-> "key", index_last |-> {},
     model |-> [kind |-> "text", text |-> "Sure."]]

ModelReplies == {[kind |-> "text", text |-> "Sure."], [kind |-> "no_content"],
                 [kind |-> "no_text"], [kind |-> "empty_content"], [kind |-> "raise"]}

\* the callers: alice is an admin, bob a user, carol has no users item
Callers == {"alice", "bob", "carol"}

\* what a caller may ask the assistant to remember or to book
GateMessages == {"remember that the sky is green", "I spent $45 on coffee", "hi",
                 "$45 coffee", "the SUMMARY please", "what did we spend?"}

\* the requests: without a message; without a token that verifies; from alice,
\* in a world of which some calls fail; and from any caller, with a knowledge
\* or a budget command, the role lookups failing or not
RequestInputs ==
    {[event |-> ChatEvent(a, b), env |-> [Quiet EXCEPT !.jwks = j], environ |-> Deployed] :
        a \in {NoAuthorization, Basic, Bearer(GoodToken("alice")),
               Bearer([GoodToken("alice") EXCEPT !.signatureValid = FALSE])},
        b \in {NoBody, EmptyObject, NoMessageBody, EmptyMessageBody, Malformed, NullBody},
        j \in {Jwks({"k1", "k2"}), JwksDown}}
    \cup
    {[event |-> ChatEvent(a, JsonBody(m, FALSE, "General")), env |-> [Busy EXCEPT !.jwks = j],
      environ |-> [DeployedWithKey EXCEPT !.COGNITO_USER_POOL_ID = pool]] :
        a \in {NoAuthorization, Basic} \cup {Bearer(t) : t \in BadTokens \cup {GoodToken("alice")}},
        m \in {"hi", BusyMessage},
        j \in {Jwks({"k1", "k2"}), JwksNoKeys, JwksDown},
        pool \in {PoolId, ""}}
    \cup
    {[event |-> ChatEvent(Bearer(GoodToken("alice")), JsonBody(m, FALSE, "General")),
      env |-> [Busy EXCEPT !.fail = f], environ |-> DeployedWithKey] :
        m \in {"hi", BusyMessage}, f \in FailureSets}
    \cup
    {[event |-> ChatEvent(Bearer(GoodToken("alice")), JsonBody(m, FALSE, "General")),
      env |-> [Busy EXCEPT !.model = r], environ |-> DeployedWithKey] :
        m \in {"hi", BusyMessage}, r \in ModelReplies}
    \cup
    {[event |-> ChatEvent(Bearer(GoodToken(u)), JsonBody(m, FALSE, "General")),
      env |-> [Quiet EXCEPT !.fail = f], environ |-> Deployed] :
        u \in Callers, m \in GateMessages, f \in SUBSET {"role_knowledge", "role_budget"}}

InitRequest ==
    /\ clock = 0
    /\ EmptyTables
    /\ log = <<>>
    /\ \E input \in RequestInputs :
           /\ environ = input.environ
           /\ arg = [event |-> input.event, env |-> input.env]
    /\ ret = Pending

\* the invocation handler(event, context)
Handle ==
    /\ ret = Pending
    /\ LET Return(out) ==
               /\ users' = out.db.users
               /\ conversations' = out.db.conversations
               /\ reminders' = out.db.reminders
               /\ adminKnowledge' = out.db.adminKnowledge
               /\ budget' = out.db.budget
               /\ searchHistory' = out.db.searchHistory
               /\ ret' = [statusCode |-> out.statusCode, body |-> out.body,
                          calls |-> out.calls, chat |-> out.chat]
       IN  Return(handler(arg.event, arg.env, clock, environ, DB))
    /\ UNCHANGED <<clock, environ, log, arg>>

NextRequest == Handle

SpecRequest == InitRequest /\ [][NextRequest]_vars


\* the message of the request's body: '' when the event has no body or the
\* body no 'message'
MessageOf(event) ==
    IF event.body.kind = "object" /\ "message" \in event.body.keys THEN event.body.message
    ELSE ""

\* no table holds more than it held before the request
NothingWritten ==
    /\ conversations = {} /\ reminders = {} /\ adminKnowledge = {} /\ budget = {}
    /\ searchHistory = {} /\ users = SeedUsers

\* C1: a chat request whose body has an empty or missing message is answered
\* with 400 and {"error": "No message provided"}, and makes no downstream call
\* (no JWKS fetch, no table read or write, no search, no crawl, no model call),
\* whatever its Authorization header
C1_NoMessage ==
    (ret # Pending /\ arg.event.httpMethod = "POST" /\ arg.event.body.kind \in {"absent", "object"}
     /\ MessageOf(arg.event) = "")
    => /\ ret.statusCode = 400
       /\ ret.body = ErrorBody("No message provided")
       /\ ret.calls = {}
       /\ NothingWritten

\* C1 happens: an empty message sent with a token that would verify
C1_Witness ==
    /\ ret # Pending /\ ret.statusCode = 400
    /\ arg.event.body = EmptyMessageBody
    /\ arg.event.headers.Authorization = Bearer(GoodToken("alice"))
    /\ arg.env.jwks = Jwks({"k1", "k2"})

\* the token does not pass one of the checks of the verification against the
\* key set fetched
FailsVerification(token, jwks, osenv) ==
    \/ jwks.status # "ok"
    \/ ~token.wellFormed
    \/ token.kid = NoKid \/ token.kid \notin jwks.keys
    \/ ~token.signatureValid \/ token.expired
    \/ token.payload.iss # ExpectedIssuer(osenv.COGNITO_USER_POOL_ID)
    \/ token.payload.client_id # osenv.COGNITO_USER_POOL_CLIENT_ID
    \/ token.payload.token_use # "access"

\* the request carries no Bearer token, or one that fails the verification
\* the handler runs (it runs none when no user pool is configured)
Unauthenticated ==
    \/ arg.event.headers.Authorization.scheme # "Bearer"
    \/ /\ environ.COGNITO_USER_POOL_ID # ""
       /\ FailsVerification(arg.event.headers.Authorization.token, arg.env.jwks, environ)

\* C2: a chat request with a non-empty message and no Authorization header, a
\* header that is not 'Bearer ...' or a token that fails verification is
\* answered with 401 and a JSON error; nothing is written to any table, no
\* search or crawl is issued and the model is not invoked
C2_Unauthorized ==
    (ret # Pending /\ MessageOf(arg.event) # "" /\ Unauthenticated)
    => /\ ret.statusCode = 401
       /\ DOMAIN ret.body = {"error"}
       /\ ret.calls \subseteq {"jwks"}
       /\ NothingWritten

\* C2 happens: a message that asks for a reminder, a fact and a budget entry,
\* sent with an ID token of the pool, is answered with 401
C2_Witness ==
    /\ ret # Pending /\ ret.statusCode = 401
    /\ MessageOf(arg.event) = BusyMessage
    /\ arg.event.headers.Authorization =
           Bearer([GoodToken("alice") EXCEPT !.payload.token_use = "id"])
    /\ arg.env.jwks = Jwks({"k1", "k2"})
    /\ environ.COGNITO_USER_POOL_ID = PoolId

\* the request is a chat request of alice with a message and a token that verifies
Authenticated ==
    /\ MessageOf(arg.event) # ""
    /\ arg.event.headers.Authorization = Bearer(GoodToken("alice"))
    /\ arg.env.jwks = Jwks({"k1", "k2"})
    /\ environ.COGNITO_USER_POOL_ID = PoolId

\* the model invocation raises
ModelFails == "model" \in arg.env.fail \/ arg.env.model.kind = "raise"

\* C10 as stated: whatever calls fail, an authenticated chat request is
\* answered with 200, and with the apology text as its response when the model
\* invocation fails
C10_ApologyIsResponse ==
    (ret # Pending /\ Authenticated)
    => /\ ret.statusCode = 200
       /\ ModelFails => ret.body.response = Apology

\* C10: whatever calls fail, an authenticated chat request is answered with
\* 200; when the model invocation fails its response is the apology text,
\* followed by the reminder note when the request created a reminder
C10_UpstreamFailures ==
    (ret # Pending /\ Authenticated)
    => /\ ret.statusCode = 200
       /\ ModelFails =>
              ret.body.response = IF ret.body.reminder_created # None
                                  THEN Apology \o ReminderNote
                                  ELSE Apology

\* C10 happens: every call of the chat path fails, reminder write included, and
\* the request is answered with 200 and the apology
C10_Witness ==
    /\ ret # Pending /\ Authenticated
    /\ arg.env.fail = FailureNames
    /\ MessageOf(arg.event) = BusyMessage
    /\ ret.statusCode = 200 /\ ret.body.response = Apology


\* the caller of the request, and whether the users table makes them an admin
CallerOf(event) == event.headers.Authorization.token.payload.sub
IsAdmin(user_id) == \E u \in SeedUsers : u.user_id = user_id /\ u.role = "admin"

\* the request is a chat request with a message and a token that verifies,
\* from a caller who is no admin or whose role lookups fail
NonAdminRequest ==
    /\ MessageOf(arg.event) # ""
    /\ arg.event.headers.Authorization.scheme = "Bearer"
    /\ environ.COGNITO_USER_POOL_ID # ""
    /\ ~FailsVerification(arg.event.headers.Authorization.token, arg.env.jwks, environ)
    /\ \/ ~IsAdmin(CallerOf(arg.event))
       \/ {"role_knowledge", "role_budget"} \subseteq arg.env.fail

\* C4: an authenticated chat request of a caller who is not an admin (no users
\* item, another role, or a role lookup that fails) writes no AdminKnowledge
\* and no BudgetEntry item, whatever its message; it is answered with 200, the
\* model is given the message as ordinary input (no budget entry in the
\* prompt), and the turn is stored when the conversation put succeeds
C4_AdminGate ==
    (ret # Pending /\ NonAdminRequest)
    => /\ adminKnowledge = {} /\ budget = {}
       /\ ret.statusCode = 200
       /\ "model" \in ret.calls
       /\ LET last == ret.chat.prompt[Len(ret.chat.prompt)].content
          IN  /\ last.user_message = MessageOf(arg.event)
              /\ last.budget_entry = None
              /\ last.admin_knowledge = {}
       /\ "conversation_write" \notin arg.env.fail =>
              \E x \in conversations : /\ x.user_id = CallerOf(arg.event)
                                       /\ x.user_message = MessageOf(arg.event)
                                       /\ x.ai_response = ret.body.response

\* C4 happens: bob, a user, asks to remember a fact, and the role lookup fails
C4_Witness ==
    /\ ret # Pending /\ ret.statusCode = 200
    /\ CallerOf(arg.event) = "bob"
    /\ MessageOf(arg.event) = "remember that the sky is green"
    /\ "role_knowledge" \in arg.env.fail
    /\ adminKnowledge = {}
    /\ \E x \in conversations : x.user_id = "bob"


(***************************************************************************)
(* SpecRemind: alice asks for reminders, seconds and a day pass, and alice *)
(* comes back                                                              *)
(***************************************************************************)
MaxSeconds == 2

ReminderTexts == {"remind me to call mom", "Remind me to pay rent"}

RemindEvents ==
    {ChatEvent(Bearer(GoodToken("alice")), JsonBody(m, FALSE, "General")) :
        m \in ReminderTexts \cup {"hi"}}

\* a second passes
TickSecond ==
    /\ clock % DaySeconds < MaxSeconds
    /\ clock' = clock + 1
    /\ UNCHANGED <<environ, users, conversations, reminders, adminKnowledge, budget,
                   searchHistory, log, arg, ret>>

\* a day passes: what was asked for before is due
TickDay ==
    /\ clock < DaySeconds
    /\ clock' = clock + DaySeconds
    /\ UNCHANGED <<environ, users, conversations, reminders, adminKnowledge, budget,
                   searchHistory, log, arg, ret>>

NextRemind ==
    \/ \E event \in RemindEvents : Invoke(event, Quiet)
    \/ TickSecond
    \/ TickDay

SpecRemind == Init /\ [][NextRemind]_vars

\* request i of the log asked for a reminder
AskedReminder(i) ==
    /\ log[i].statusCode = 200
    /\ ContainsAny(Lower(MessageOf(log[i].event)), ReminderPhrases)
    /\ "reminder_write" \notin log[i].env.fail

\* the texts a due-reminder query of the user returns now
DueTexts(user_id) ==
    LET due == get_due_reminders(DB, user_id, clock, FALSE)
    IN  {due[k].reminder_text : k \in 1..Len(due)}

\* C9: every chat request with a valid token and a reminder phrase whose
\* reminder put succeeds is answered with a reminder_created id, and from then
\* on a pending reminder with the message as its text is stored for the user,
\* which every due-reminder query made once it is due returns, also when the
\* user asks for several reminders in quick succession
C9_ReminderEndToEnd ==
    \A i \in DOMAIN log :
        AskedReminder(i) =>
            /\ log[i].body.reminder_created # None
            /\ \E r \in reminders : /\ r.user_id = log[i].chat.user_id
                                    /\ r.status = "pending"
                                    /\ r.reminder_text = MessageOf(log[i].event)
            /\ clock >= log[i].at + DaySeconds =>
                   MessageOf(log[i].event) \in DueTexts(log[i].chat.user_id)


\* the same, for the runs in which every request has a clock second of its own
C9_ReminderDistinctSeconds == DistinctSeconds => C9_ReminderEndToEnd


(***************************************************************************)
(* SpecSearch: search_web_for_query applied once, for alice on topic       *)
(* General, whatever the backends answer and whatever the search history   *)
(***************************************************************************)
MaxLinks == 2
MaxResults == 3

Urls == {"u1", "u2"}

RECURSIVE SeqsUpTo(_, _)
\* the sequences over S of at most n elements
SeqsUpTo(S, n) ==
    IF n = 0 THEN {<<>>}
    ELSE LET shorter == SeqsUpTo(S, n - 1)
         IN  shorter \cup {Append(q, x) : q \in shorter, x \in S}

\* an instant answer that names no page
NoUrlAnswer == [Heading |-> "an answer", Abstract |-> "it is so", AbstractURL |-> ""]

LinkTo(url) == [title |-> "page " \o url, url |-> url, snippet |-> ""]

\* the reply of DuckDuckGo with this instant answer and links to these pages
DdgReply(abstract, urls) ==
    [instant_ok |-> TRUE, abstract |-> abstract, related |-> <<>>, html_ok |-> TRUE,
     links |-> [i \in 1..Len(urls) |-> LinkTo(urls[i])]]

\* what the first query is answered with, and what the follow-up queries are
FirstReplies == {DdgReply(a, q) : a \in {None, NoUrlAnswer}, q \in SeqsUpTo(Urls, MaxLinks)}
FollowUpReplies == {EmptyDdgReply, DdgReply(NoUrlAnswer, <<>>), DdgReply(None, <<"u1">>)}

\* the records an earlier search of alice on General, at second 0, left for
\* the results of these URLs ('' for a result that named no page)
HistoryOf(urls) ==
    LET Index(u) == CASE u = "" -> 0 [] u = "u1" -> 1 [] OTHER -> 2
    IN  {[user_id |-> "alice", topic |-> "General",
          search_id |-> SearchId("alice", "General", 0, Index(u)),
          search_query |-> "hi",
          result_title |-> IF u = "" THEN "an answer" ELSE "page " \o u, result_url |-> u,
          result_source |-> IF u = "" THEN "DuckDuckGo Instant Answer"
                            ELSE "DuckDuckGo Web Search",
          searched_at |-> 0,
          ttl |-> DaySeconds * 7] : u \in urls}

\* the records that SearchHistoryLimit + 1 earlier searches of alice on
\* General, one a second, each left for its one result: the first search found
\* the page u1, the later ones the page u2
LongHistory ==
    {[user_id |-> "alice", topic |-> "General",
      search_id |-> SearchId("alice", "General", k, 0), search_query |-> "hi",
      result_title |-> "page", result_url |-> IF k = 0 THEN "u1" ELSE "u2",
      result_source |-> "DuckDuckGo Web Search", searched_at |-> k,
      ttl |-> k + DaySeconds * 7] : k \in 0..SearchHistoryLimit}

\* the histories the search starts from
Histories == {HistoryOf(seen) : seen \in SUBSET (Urls \cup {""})} \cup {LongHistory}

\* the items the index may yield last: none, or the newest of the long history
IndexLasts == {{}, {SearchId("alice", "General", SearchHistoryLimit, 0)}}

InitSearch ==
    /\ clock = ThreadWindow
    /\ environ = Deployed
    /\ users = SeedUsers
    /\ conversations = {} /\ reminders = {} /\ adminKnowledge = {} /\ budget = {}
    /\ searchHistory \in Histories
    /\ log = <<>>
    /\ \E first \in FirstReplies : \E then \in FollowUpReplies :
       \E pages \in {{}, {"u1"}} : \E n \in 1..MaxResults : \E last \in IndexLasts :
           arg = [env |-> [Quiet EXCEPT !.ddg = <<first, then>>, !.crawlable = pages,
                                        !.index_last = last],
                  max_results |-> n, history |-> searchHistory]
    /\ ret = Pending

\* the call search_web_for_query("hi", "alice", "General", max_results)
Search ==
    /\ ret = Pending
    /\ LET Return(out) ==
               /\ searchHistory' = out.searchHistory
               /\ ret' = out
       IN  Return(search_web_for_query(DB, "hi", "alice", "General", arg.max_results, TRUE,
                                      clock, environ, arg.env))
    /\ UNCHANGED <<clock, environ, users, conversations, reminders, adminKnowledge, budget,
                   log, arg>>

NextSearch == Search

SpecSearch == InitSearch /\ [][NextSearch]_vars

\* the URLs get_unseen_results takes for seen, given the history of the pair
\* before the call
SeenUrls == {h.result_url : h \in {x \in arg.history : x.result_url # ""}}

\* C6: in the selection of search_web_for_query a result whose URL is in the
\* search history of (user_id, topic) is selected only when fewer than
\* max_results of the accumulated results are unseen; every unseen selected
\* result precedes every seen one; and the selection has at most max_results
\* entries
C6_Deduplication ==
    ret # Pending =>
        LET unseen == get_unseen_results(ret.all_results, arg.history)
            sel == ret.selected
        IN  /\ (\E k \in 1..Len(sel) : sel[k].url \in SeenUrls) => Len(unseen) < arg.max_results
            /\ \A j \in 1..Len(sel) : \A k \in 1..Len(sel) :
                   (sel[j].url \notin SeenUrls /\ sel[k].url \in SeenUrls) => j < k
            /\ Len(sel) <= arg.max_results

\* the same, when the history holds no record of a result that named no page
\* and no more records than one query reads
C6_DeduplicationOfPages ==
    ((\A h \in arg.history : h.result_url # "")
     /\ Cardinality(arg.history) <= SearchHistoryLimit) => C6_Deduplication


(***************************************************************************)
(* SpecAdmin: requests to the admin endpoints, with and without the admin  *)
(* key, next to a chat request of alice                                    *)
(***************************************************************************)
MaxAdminRequests == 2

\* the headers of a request: Authorization, X-Admin-Key and x-admin-key ('' for
\* a header that is not sent)
AdminHeaders(authorization, upper_key, lower_key) ==
    [Authorization |-> authorization, X_Admin_Key |-> upper_key, x_admin_key |-> lower_key]

\* an API Gateway proxy event
AdminEvent(method, path, headers, body) ==
    [httpMethod |-> method, path |-> path, headers |-> headers, body |-> body]

\* the headers of a caller who holds the admin key, and of callers who do not:
\* a wrong key, or no key but the bearer token of the admin user alice
KeyHolder == AdminHeaders(NoAuthorization, DefaultAdminKey, "")
KeyHolderLowerCase == AdminHeaders(NoAuthorization, "", DefaultAdminKey)
WrongKey == AdminHeaders(NoAuthorization, "admin-key-2025", "")
TokenOnly == AdminHeaders(Bearer(GoodToken("alice")), "", "")

UserBody == [kind |-> "object", keys |-> {"email", "name"}, email |-> "eve@example.org",
             name |-> "Eve"]
KnowledgeBody == [kind |-> "object", keys |-> {"knowledge"}, knowledge |-> " a fact "]
\* method, path and body of the requests to the guarded endpoints
GuardedRequests ==
    {<<"GET", "/admin/users", NoBody>>, <<"POST", "/admin/users", UserBody>>,
     <<"POST", "/admin/users", EmptyObject>>, <<"POST", "/admin/users", Malformed>>,
     <<"GET", "/admin/users/alice", NoBody>>, <<"DELETE", "/admin/users/alice", NoBody>>,
     <<"GET", "/admin/stats", NoBody>>, <<"GET", "/admin/knowledge", NoBody>>,
     <<"POST", "/admin/knowledge", KnowledgeBody>>, <<"POST", "/admin/knowledge", Malformed>>,
     <<"DELETE", "/admin/knowledge/knowledge_0", NoBody>>,
     <<"POST", "/admin/cleanup", NoBody>>, <<"GET", "/admin/reports", NoBody>>,
     <<"OPTIONS", "/admin/users", NoBody>>}

\* the calls of the admin endpoints that can raise
AdminFailureNames == {"users_scan", "users_write", "users_get", "users_delete",
                      "admin_conversations", "admin_reminders", "admin_tasks", "stats_scan",
                      "knowledge_scan", "knowledge_write", "knowledge_delete",
                      "cleanup_scan", "role_status"}

AdminWorlds == {Quiet, [Quiet EXCEPT !.fail = AdminFailureNames],
                [Quiet EXCEPT !.fail = {"admin_reminders"}]}

\* the requests of the specification, each with the world it meets
AdminInputs ==
    {[event |-> AdminEvent(r[1], r[2], KeyHolder, r[3]), env |-> w] :
        r \in GuardedRequests, w \in AdminWorlds}
    \cup {[event |-> AdminEvent(r[1], r[2], h, r[3]), env |-> Quiet] :
            r \in GuardedRequests, h \in {WrongKey, TokenOnly}}
    \cup {[event |-> AdminEvent("GET", "/admin/stats", KeyHolderLowerCase, NoBody),
           env |-> Quiet]}
    \cup {[event |-> AdminEvent("GET", "/admin/check-status", h, NoBody), env |-> w] :
            h \in {TokenOnly, KeyHolder}, w \in AdminWorlds}
    \cup {[event |-> AdminEvent("POST", "/ai", TokenOnly, JsonBody(BusyMessage, FALSE, "General")),
           env |-> Busy]}

NextAdmin == \E i \in AdminInputs : Len(log) < MaxAdminRequests /\ Invoke(i.event, i.env)

SpecAdmin == Init /\ [][NextAdmin]_vars

\* the handled requests that went to an admin sub-endpoint guarded by the key
Guarded(event) == StartsWith(event.path, "/admin") /\ event.path # "/admin/check-status"

\* the admin key the request carries is not the configured one
LacksKey(event) ==
    /\ event.headers.X_Admin_Key # DefaultAdminKey
    /\ ~(event.headers.X_Admin_Key = "" /\ event.headers.x_admin_key = DefaultAdminKey)

\* the text of an error reply carries the text of an exception
Leaks(body) ==
    /\ "error" \in DOMAIN body
    /\ \E t \in {ExceptionText, DecimalText, JsonText} : Contains(body.error, t)

\* C11: no response of the Lambda, of the chat endpoint, of an admin
\* sub-endpoint or of the admin status check, carries the text of an exception
C11_NoErrorDetail == \A i \in 1..Len(log) : ~Leaks(log[i].body)

\* C12: a chat request whose body is not valid JSON, or is absent or null, is
\* answered with a 4xx status and a JSON error, never with a 5xx, and makes no
\* downstream call
C12_MalformedIsClientError ==
    (ret # Pending /\ arg.event.httpMethod = "POST"
     /\ arg.event.body.kind \in {"malformed", "null", "absent"})
    => /\ ret.statusCode \in 400..499
       /\ "error" \in DOMAIN ret.body
       /\ ret.calls = {}
       /\ NothingWritten

\* the step is a request, which the log gains as its last entry
Handled == Len(log') = Len(log) + 1

\* C13 as stated: every request to a path under /admin other than
\* /admin/check-status that lacks the admin key is answered 401 and touches no
\* table
C13_EveryRequest ==
    [][(Handled /\ Guarded(log'[Len(log')].event) /\ LacksKey(log'[Len(log')].event))
       => /\ log'[Len(log')].statusCode = 401
          /\ log'[Len(log')].calls = {}
          /\ UNCHANGED tables]_vars

\* C13: every request to a path under /admin other than /admin/check-status
\* that lacks the admin key touches no table, whatever bearer token it carries;
\* it is answered 401 with "Invalid admin API key", except the OPTIONS
\* preflight, which is answered 200
C13_KeyGate ==
    [][(Handled /\ Guarded(log'[Len(log')].event) /\ LacksKey(log'[Len(log')].event))
       => /\ log'[Len(log')].calls = {}
          /\ UNCHANGED tables
          /\ IF log'[Len(log')].event.httpMethod = "OPTIONS"
             THEN log'[Len(log')].statusCode = 200
             ELSE /\ log'[Len(log')].statusCode = 401
                  /\ log'[Len(log')].body = ErrorBody("Invalid admin API key")]_vars

\* C13 happens: after a keyed request added a user, the deletion of alice is
\* asked for with the valid bearer token of the administrator alice and no
\* admin key, and is answered 401
C13_Witness ==
    /\ Len(log) = 2
    /\ log[1].statusCode = 201
    /\ log[2].event.httpMethod = "DELETE" /\ log[2].event.path = "/admin/users/alice"
    /\ log[2].event.headers = TokenOnly
    /\ log[2].statusCode = 401
    /\ \E u \in users : u.user_id = "alice"

\* the request was handled as the chat of an administrator whose role lookups
\* succeeded
AdminChat ==
    /\ ret # Pending /\ ret.chat # None
    /\ IsAdmin(ret.chat.user_id)
    /\ arg.env.fail \cap {"role_knowledge", "role_budget", "role_summary"} = {}

\* the message contains spending vocabulary, case ignored
HasSpendingVocabulary(message) ==
    ContainsAny(Lower(message), {"spent", "spend", "budget", "expense", "cost", "paid",
                                 "bought", "purchased", "invested"})

\* the message contains a money pattern: $ and a number, or a number followed by
\* dollars or bucks
HasMoneyPattern(message) == ExtractAmount(message) # None

\* C14: the budget-entry intent fires exactly when the message contains
\* spending vocabulary or a money pattern; seen on the requests of an
\* administrator, for whom a fired intent extracts the budget information
C14_BudgetIntent ==
    AdminChat =>
        ((ret.chat.budget_info # None)
         <=> (HasSpendingVocabulary(MessageOf(arg.event)) \/ HasMoneyPattern(MessageOf(arg.event))))

\* C15: save_budget_entry is called, and so a BudgetEntry written, only if
\* the caller is an administrator, the message is a budget command and an
\* amount was extracted from it; every BudgetEntry stored has an amount and
\* was written by the request of an administrator
C15_BudgetWriteGate ==
    (ret # Pending /\ ret.chat # None) =>
        /\ ret.chat.budget_save_called =>
               /\ IsAdmin(ret.chat.user_id)
               /\ is_budget_command(MessageOf(arg.event))
               /\ Truthy(ExtractAmount(MessageOf(arg.event)))
        /\ (budget # {} \/ ret.chat.budget_saved) => ret.chat.budget_save_called
        /\ \A e \in budget : e.amount # None /\ IsAdmin(e.user_id)

\* C15 happens: the administrator alice books an amount and the entry is
\* handed to save_budget_entry
C15_Witness ==
    /\ ret # Pending /\ ret.chat # None
    /\ MessageOf(arg.event) = "I spent $45 on coffee"
    /\ ret.chat.user_id = "alice"
    /\ ret.chat.budget_save_called
    /\ ret.chat.budget_info.amount = Float("45")

\* the message contains, case ignored, one of the words that ask for the
\* budget summary
HasQueryWord(message) ==
    \E w \in {"budget", "spending", "expenses", "total", "summary", "tally"} :
        Contains(Lower(message), w)

\* the budget summary the prompt of the request carries
PromptSummary == ret.chat.prompt[Len(ret.chat.prompt)].content.budget_summary

\* C16 as stated: a budget summary is fetched and put into the prompt exactly
\* when the message contains one of the query words
C16_QueryWords ==
    (ret # Pending /\ ret.chat # None) =>
        /\ ret.chat.budget_summary_called <=> HasQueryWord(MessageOf(arg.event))
        /\ PromptSummary # None <=> HasQueryWord(MessageOf(arg.event))

\* C16: a budget summary is fetched exactly when the caller is found to be an
\* administrator and the message contains one of the query words, case
\* ignored; the prompt carries it exactly when it is fetched and the scan of
\* the budget table does not fail; whether a budget entry was extracted or
\* saved in the request makes no difference
C16_QueryGate ==
    (ret # Pending /\ ret.chat # None) =>
        /\ ret.chat.budget_summary_called
               <=> /\ HasQueryWord(MessageOf(arg.event))
                   /\ IsAdmin(ret.chat.user_id)
                   /\ "role_summary" \notin arg.env.fail
        /\ PromptSummary # None
               <=> (ret.chat.budget_summary_called /\ "budget_read" \notin arg.env.fail)
        /\ PromptSummary = ret.chat.budget_summary

\* C16 happens: alice asks for 'the SUMMARY', a message with no spending word,
\* and the prompt carries the summary
C16_Witness ==
    /\ ret # Pending /\ ret.chat # None
    /\ ret.chat.user_id = "alice"
    /\ MessageOf(arg.event) = "the SUMMARY please"
    /\ ret.chat.budget_info = None
    /\ PromptSummary # None /\ PromptSummary.total_entries = 0

\* C17: when the model call succeeds and its reply has no 'content', an empty
\* 'content' list or a first content element without 'text', the request is
\* answered 200 and the response text is 'Sorry, I could not generate a
\* response.' (followed by the reminder note when a reminder was created)
C17_MissingText ==
    (ret # Pending /\ ret.chat # None /\ "model" \notin arg.env.fail
     /\ arg.env.model.kind \in {"no_content", "empty_content", "no_text"})
    => /\ ret.statusCode = 200
       /\ StartsWith(ret.body.response, CouldNotGenerate)

(***************************************************************************)
(* SpecRace: two chat requests of alice handled by two concurrent          *)
(* invocations of the Lambda.  Each invocation reads the tables when it    *)
(* chooses the thread of its turn (line 1892) and writes the turn later    *)
(* (line 1905); the steps of the two interleave, and seconds pass.         *)
(***************************************************************************)
Requests == {1, 2}

\* no invocation has started
InitRace ==
    /\ clock = 0
    /\ environ = Deployed
    /\ EmptyTables
    /\ log = <<>>
    /\ arg = [p \in Requests |-> [pc |-> "idle"]]
    /\ ret = None

\* invocation p runs handler for 'hi' on the topic up to the choice of the
\* thread; blind tells that no other invocation had written its turn by then
Begin(p, topic) ==
    /\ arg[p].pc = "idle"
    /\ LET Run(f) ==
               /\ users' = f.db.users
               /\ conversations' = f.db.conversations
               /\ reminders' = f.db.reminders
               /\ adminKnowledge' = f.db.adminKnowledge
               /\ budget' = f.db.budget
               /\ searchHistory' = f.db.searchHistory
               /\ arg' = [arg EXCEPT ![p] =
                              [pc |-> "chosen", f |-> [f EXCEPT !.db = None],
                               blind |-> \A q \in Requests \ {p} : arg[q].pc # "done"]]
       IN  Run(chat_begin([user_payload |-> AccessPayload("alice"), user_message |-> "hi",
                           start_new_thread |-> FALSE, topic |-> topic, env |-> Quiet,
                           now |-> clock, osenv |-> environ, db |-> DB]))
    /\ UNCHANGED <<clock, environ, log, ret>>

\* invocation p puts its turn into the table as it is now, and returns
Finish(p) ==
    /\ arg[p].pc = "chosen"
    /\ LET Return(out) ==
               /\ users' = out.db.users
               /\ conversations' = out.db.conversations
               /\ reminders' = out.db.reminders
               /\ adminKnowledge' = out.db.adminKnowledge
               /\ budget' = out.db.budget
               /\ searchHistory' = out.db.searchHistory
               /\ log' = Append(log, [request |-> p, at |-> clock,
                                      statusCode |-> out.statusCode, body |-> out.body,
                                      calls |-> out.calls, chat |-> out.chat])
       IN  Return(chat_finish([arg[p].f EXCEPT !.db = DB]))
    /\ arg' = [arg EXCEPT ![p].pc = "done"]
    /\ UNCHANGED <<clock, environ, ret>>

NextRace ==
    \/ \E p \in Requests, topic \in Topics : Begin(p, topic)
    \/ \E p \in Requests : Finish(p)
    \/ TickSecond

SpecRace == InitRace /\ [][NextRace]_vars

\* the stored turn of invocation p
TurnOf(p) ==
    {x \in conversations : x.conversation_id = ConversationId(arg[p].f.now)
                             /\ x.topic = arg[p].f.topic}

\* both invocations have returned; they were for the same topic, within the
\* same 30 minutes, in different seconds, and each chose its thread before the
\* other wrote its turn
Interleaved ==
    /\ \A p \in Requests : arg[p].pc = "done" /\ arg[p].blind
    /\ arg[1].f.topic = arg[2].f.topic
    /\ arg[1].f.now # arg[2].f.now
    /\ arg[1].f.now - arg[2].f.now < ThreadWindow
    /\ arg[2].f.now - arg[1].f.now < ThreadWindow

\* the two turns are stored, each in a thread of its own that was started for it
Raced ==
    /\ \A p \in Requests :
           /\ arg[p].pc = "done"
           /\ TurnOf(p) # {}
           /\ \A x \in TurnOf(p) :
                  x.thread_id = NewThreadId("alice", arg[p].f.topic, arg[p].f.now)
    /\ arg[1].f.topic = arg[2].f.topic
    /\ arg[1].f.thread_id # arg[2].f.thread_id

\* C18: the thread-id race: when two concurrent requests of a user on one
\* topic, without start_new_thread and within the same 30 minutes, each look
\* up the thread before the other's turn is written (and find no turn of the
\* topic), each starts a new thread and the two turns are stored in different
\* threads; no later step puts them into one thread
C18_ThreadRace ==
    [][/\ Interleaved' => Raced'
       /\ (Interleaved /\ Raced) => (Interleaved' /\ Raced')]_vars

\* C18 happens: the race is reached, the first request at second 0 and the
\* other at second 1, and a second later the turns are as they were stored
C18_Witness ==
    /\ Interleaved /\ Raced
    /\ clock = 2
    /\ {arg[1].f.now, arg[2].f.now} = {0, 1}
    /\ Cardinality({x.thread_id : x \in conversations}) = 2

(***************************************************************************)
(* SpecTtl: the writes of the Lambda, of the chat endpoint and of the      *)
(* admin endpoints, and the completion of reminders, while time passes     *)
(***************************************************************************)

\* a chat request of alice that stores a turn, a reminder, a fact and search
\* results; and keyed admin requests that create and delete
TtlInputs ==
    {[event |-> AdminEvent("POST", "/ai", TokenOnly, JsonBody(BusyMessage, FALSE, "General")),
      env |-> Busy]}
    \cup {[event |-> AdminEvent(r[1], r[2], KeyHolder, r[3]), env |-> Quiet] :
            r \in {<<"POST", "/admin/users", UserBody>>,
                   <<"POST", "/admin/knowledge", KnowledgeBody>>,
                   <<"DELETE", "/admin/users/alice", NoBody>>,
                   <<"POST", "/admin/cleanup", NoBody>>}}

\* a reminder read from the table is marked completed
MarkCompleted(user_id, reminder_id) ==
    /\ \E r \in reminders :
           r.user_id = user_id /\ r.reminder_id = reminder_id /\ r.status = "pending"
    /\ reminders' = mark_reminder_completed(DB, user_id, reminder_id, FALSE).reminders
    /\ UNCHANGED <<clock, environ, users, conversations, adminKnowledge, budget,
                   searchHistory, log, arg, ret>>

NextTtl ==
    \/ \E i \in TtlInputs : Invoke(i.event, i.env)
    \/ \E r \in reminders : MarkCompleted(r.user_id, r.reminder_id)
    \/ TickSecond
    \/ TickDay

SpecTtl == Init /\ [][NextTtl]_vars

\* every item of the table has a ttl later than the time held by its attribute
\* of creation
Expiring(table, created) ==
    \A x \in table : "ttl" \in DOMAIN x /\ created \in DOMAIN x /\ x.ttl > x[created]

TreatedAsSeen(r) == \A j \in 1..Len(ret.unseen_results) : ret.unseen_results[j] # r

\* C20: during search_web_for_query for (user_id, topic) a result that names a
\* page is treated as seen exactly when its URL is the result_url of a record
\* of the search history stored for (user_id, topic), however many records
\* the history has
C20_SeenIsHistory ==
    ret # Pending =>
        \A k \in 1..Len(ret.all_results) :
            ret.all_results[k].url # ""
            => (TreatedAsSeen(ret.all_results[k])
                <=> \E h \in arg.history : h.result_url = ret.all_results[k].url)

(***************************************************************************)
(* SpecSearches: search_web_for_query applied several times for alice on   *)
(* topic General, as the requests of alice follow each other, while        *)
(* seconds pass                                                            *)
(***************************************************************************)
MaxSearches == 2

\* what the first query of a search is answered with: links to u1, to u2, to
\* both, or nothing
SearchWorlds ==
    {[Quiet EXCEPT !.ddg = <<DdgReply(None, q), EmptyDdgReply>>] :
        q \in {<<>>, <<"u1">>, <<"u2">>, <<"u1", "u2">>, <<"u2", "u1">>}}

\* one call search_web_for_query("hi", "alice", "General", max_results=8,
\* enable_deep_research=True), as handler makes it (line 1846)
SearchAgain(env) ==
    /\ Len(log) < MaxSearches
    /\ LET Return(out) ==
               /\ searchHistory' = out.searchHistory
               /\ log' = Append(log, [at |-> clock, env |-> env, selected |-> out.selected,
                                      before |-> searchHistory])
       IN  Return(search_web_for_query(DB, "hi", "alice", "General", 8, TRUE, clock, environ,
                                      env))
    /\ UNCHANGED <<clock, environ, users, conversations, reminders, adminKnowledge, budget,
                   arg, ret>>

NextSearches ==
    \/ \E env \in SearchWorlds : SearchAgain(env)
    \/ TickSecond

SpecSearches == Init /\ [][NextSearches]_vars

\* the URLs of the records stored for alice on General
StoredUrls ==
    {h.result_url : h \in {x \in searchHistory : x.user_id = "alice" /\ x.topic = "General"}}

\* C21: after any sequence of searches the search history of (user_id, topic)
\* holds a record with the URL of every result a search returned for the
\* pair: the records of a call replace neither each other nor the records of
\* earlier calls
C21_ReturnedIsRecorded ==
    \A i \in 1..Len(log) : \A k \in 1..Len(log[i].selected) :
        log[i].selected[k].url \in StoredUrls

(***************************************************************************)
(* SpecPhases: search_web_for_query applied once on an empty history, for  *)
(* messages that plan one, three and more than three terms, whatever the   *)
(* backend answers to each query and whichever pages can be fetched        *)
(***************************************************************************)
\* messages: one short word, blanks only, a topic with three fixed terms, and
\* one from which two phrases and three words are extracted
PhaseMessages == {"hi", "   ", "quantum computing", "used bikes nearby"}

\* what one query is answered with: nothing, one link, or an instant answer
\* that names no page and two links
PhaseReplies == {EmptyDdgReply, DdgReply(None, <<"u1">>), DdgReply(NoUrlAnswer, <<"u1", "u2">>)}

InitPhases ==
    /\ clock = ThreadWindow
    /\ environ = Deployed
    /\ users = SeedUsers
    /\ conversations = {} /\ reminders = {} /\ adminKnowledge = {} /\ budget = {}
    /\ searchHistory = {}
    /\ log = <<>>
    /\ \E a \in PhaseReplies : \E b \in PhaseReplies : \E c \in PhaseReplies :
       \E d \in PhaseReplies : \E pages \in SUBSET Urls : \E n \in 1..MaxResults :
       \E m \in PhaseMessages :
           arg = [env |-> [Quiet EXCEPT !.ddg = <<a, b, c, d, d, d>>, !.crawlable = pages],
                  max_results |-> n, message |-> m]
    /\ ret = Pending

\* the call search_web_for_query(message, "alice", "General", max_results)
SearchPhases ==
    /\ ret = Pending
    /\ LET Return(out) ==
               /\ searchHistory' = out.searchHistory
               /\ ret' = out
       IN  Return(search_web_for_query(DB, arg.message, "alice", "General", arg.max_results,
                                      TRUE, clock, environ, arg.env))
    /\ UNCHANGED <<clock, environ, users, conversations, reminders, adminKnowledge, budget,
                   log, arg>>

NextPhases == SearchPhases

SpecPhases == InitPhases /\ [][NextPhases]_vars

\* C22: phase 1 queries the free backend for at most three planned terms, in
\* planning order, each query capped at max_results results, and issues no
\* query once the accumulator holds 2 x max_results results; the planned list
\* is never empty (the stripped message is its sole term when nothing is
\* extracted), so at least one query is issued
C22_PhaseOne ==
    ret # Pending =>
        LET search_terms == PlanSearchTerms(arg.message)
            issued == ret.phase1
        IN  /\ Len(search_terms) >= 1
            /\ Len(issued) >= 1 /\ Len(issued) <= 3 /\ Len(issued) <= Len(search_terms)
            /\ \A k \in 1..Len(issued) :
                   /\ issued[k].query = search_terms[k]
                   /\ issued[k].cap = arg.max_results
                   /\ issued[k].got <= arg.max_results
                   /\ issued[k].before < 2 * arg.max_results
            /\ arg.message \in {"hi", "   "} => search_terms = <<Strip(arg.message)>>

\* a search that planned five terms and queried for the first two of them
\* only, the second query having filled the accumulator to 2 x max_results
C22_Witness ==
    /\ ret # Pending
    /\ Len(PlanSearchTerms(arg.message)) = 5
    /\ Len(ret.phase1) = 2
    /\ ret.phase1[2].before + ret.phase1[2].got >= 2 * arg.max_results

\* a search that planned five terms and queried for three of them
C22_ThreeQueries ==
    ret # Pending /\ Len(PlanSearchTerms(arg.message)) = 5 /\ Len(ret.phase1) = 3

\* p is a prefix of q
IsPrefix(p, q) == Len(p) <= Len(q) /\ \A k \in 1..Len(p) : q[k] = p[k]

\* C23: no phase removes or reorders what the accumulator holds; phase 2
\* issues follow-up queries only when the accumulator is non-empty after
\* phase 1, at most three of them, each capped at 2 results, and none once the
\* accumulator holds 3 x max_results results
C23_Additive ==
    ret # Pending =>
        /\ IsPrefix(ret.after_phase1, ret.after_kg)
        /\ IsPrefix(ret.after_kg, ret.after_phase2)
        /\ IsPrefix(ret.after_phase2, ret.all_results)
        /\ Len(ret.phase2) > 0 => Len(ret.after_kg) > 0
        /\ Len(ret.phase2) <= 3
        /\ \A k \in 1..Len(ret.phase2) :
               /\ ret.phase2[k].cap = 2
               /\ ret.phase2[k].got <= 2
               /\ ret.phase2[k].before < 3 * arg.max_results

\* a search whose first follow-up query filled the accumulator to
\* 3 x max_results, the other two follow-up queries not being issued
C23_Witness ==
    /\ ret # Pending
    /\ Len(ret.after_phase1) > 0
    /\ Len(ret.phase2) = 1
    /\ Len(ret.after_phase2) >= 3 * arg.max_results
    /\ Len(ret.after_phase2) > Len(ret.after_phase1)

\* a search that issued its three follow-up queries
C23_ThreeFollowUps == ret # Pending /\ Len(ret.phase2) = 3 /\ ret.phase2[3].got > 0

\* a search that found nothing in phase 1 and issued no follow-up query
C23_NoPhaseTwo == ret # Pending /\ Len(ret.phase1) > 0 /\ ret.after_kg = <<>> /\ ret.phase2 = <<>>

\* the URLs of the entries of a result list that name a page, in order
UrlsOf(results) ==
    LET HasUrl(r) == r.url # ""
        named == SelectSeq(results, HasUrl)
    IN  [k \in 1..Len(named) |-> named[k].url]

\* the entries phase 3 appended to the accumulator
CrawlEntries == SubSeq(ret.all_results, Len(ret.after_phase2) + 1, Len(ret.all_results))

\* C24: phase 3 fetches the top 3 URLs of the accumulated set and no more; a
\* fetch that fails adds no entry and the remaining URLs are still fetched;
\* each successful fetch appends exactly one entry of source 'Website Crawl'
C24_DeepCrawl ==
    ret # Pending =>
        LET Fetched(u) == u \in arg.env.crawlable
        IN  /\ ret.crawled = Take(UrlsOf(ret.after_phase2), 3)
            /\ UrlsOf(CrawlEntries) = SelectSeq(ret.crawled, Fetched)
            /\ \A k \in 1..Len(CrawlEntries) : CrawlEntries[k].source = "Website Crawl"

\* what the code does: it fetches the URLs that the first three entries of
\* the accumulator name, which are fewer than three when one of these entries
\* names no page
C24_CrawlOfFirstThreeEntries ==
    ret # Pending =>
        LET Fetched(u) == u \in arg.env.crawlable
        IN  /\ ret.crawled = UrlsOf(Take(ret.after_phase2, 3))
            /\ Len(ret.crawled) <= 3
            /\ UrlsOf(CrawlEntries) = SelectSeq(ret.crawled, Fetched)
            /\ \A k \in 1..Len(CrawlEntries) : CrawlEntries[k].source = "Website Crawl"

\* a search whose first fetch failed and whose second fetch added an entry
C24_FailedThenFetched ==
    /\ ret # Pending
    /\ Len(ret.crawled) >= 2
    /\ ret.crawled[1] \notin arg.env.crawlable
    /\ ret.crawled[2] \in arg.env.crawlable
    /\ Len(CrawlEntries) >= 1

(***************************************************************************)
(* SpecHistory: a request of alice or bob after alice has stored turns on  *)
(* General, then on Work, then on General again, one turn a second         *)
(***************************************************************************)
MaxOwn == 6
MaxOther == 10
MaxAsks == 1

\* the topics of the turns alice stored, in their order
TopicRuns ==
    {[k \in 1..(g + w + h) |-> IF k > g /\ k <= g + w THEN "Work" ELSE "General"] :
        g \in 0..MaxOwn, w \in 0..MaxOther, h \in 0..1}

RECURSIVE StoreTurns(_, _, _, _)
\* the conversations table after the user's turns on these topics, the k-th
\* stored at second k as handler stores it (lines 1884-1909)
StoreTurns(user_id, topics, k, table) ==
    IF k > Len(topics) THEN table
    ELSE StoreTurns(user_id, topics, k + 1,
                    PutItem(table,
                            [user_id |-> user_id, conversation_id |-> ConversationId(k),
                             thread_id |-> get_or_create_thread_id([conversations |-> table],
                                                                   user_id, topics[k], k, FALSE),
                             topic |-> topics[k], timestamp |-> k,
                             user_message |-> "message " \o ToString(k),
                             ai_response |-> "answer " \o ToString(k),
                             ttl |-> k + DaySeconds * 30],
                            ConversationKey))

\* what is asked: by alice on either topic, by alice in a new thread, by bob
AskEvents ==
    {ChatEvent(Bearer(GoodToken("alice")), JsonBody("hi", FALSE, t)) : t \in Topics}
    \cup {ChatEvent(Bearer(GoodToken("alice")), JsonBody("hi", TRUE, "General")),
          ChatEvent(Bearer(GoodToken("bob")), JsonBody("hi", FALSE, "General"))}

InitHistory ==
    /\ clock = 100
    /\ environ = Deployed
    /\ users = SeedUsers
    /\ reminders = {} /\ adminKnowledge = {} /\ budget = {} /\ searchHistory = {}
    /\ conversations \in {StoreTurns("alice", run, 1, StoreTurns("bob", <<"General">>, 1, {})) :
                              run \in TopicRuns}
    /\ log = <<>>
    /\ arg = None
    /\ ret = None

Ask(event) == Len(log) < MaxAsks /\ Invoke(event, Quiet)

NextHistory == \E event \in AskEvents : Ask(event)

SpecHistory == InitHistory /\ [][NextHistory]_vars

\* the turns the user of request i had stored on the topic of the request
\* when the request came, oldest first
TurnsBefore(i) ==
    SortAsc({<<x.timestamp, x>> :
                x \in {y \in log[i].before.conversations :
                          /\ y.user_id = log[i].chat.user_id
                          /\ y.topic = log[i].event.body.topic}})

\* the messages of the prompt of request i that precede the current message
HistoryInPrompt(i) == SubSeq(log[i].chat.prompt, 1, Len(log[i].chat.prompt) - 1)

\* the user and assistant messages of these turns, turn by turn
MessagesOf(turns) ==
    LET exchange == [k \in 1..Len(turns) |->
                       <<[role |-> "user", content |-> turns[k].user_message],
                         [role |-> "assistant", content |-> turns[k].ai_response]>>]
        Flat[k \in 0..Len(turns)] == IF k = 0 THEN <<>> ELSE Flat[k - 1] \o exchange[k]
    IN  Flat[Len(turns)]

\* C25: unless start_new_thread is set, the prompt holds the last five stored
\* turns of the requesting user on the request's topic (all of them when they
\* are fewer), oldest first, and no other turn, whatever the user stored on
\* other topics in between; with start_new_thread it holds no earlier turn
C25_HistoryInPrompt ==
    \A i \in 1..Len(log) :
        log[i].statusCode = 200 =>
            HistoryInPrompt(i) = IF log[i].event.body.start_new_thread THEN <<>>
                                 ELSE MessagesOf(LastN(TurnsBefore(i), PromptTurns))

\* the same, for requests of a user whose ten newest turns include the last
\* five of the topic
C25_HistoryWithinTenTurns ==
    \A i \in 1..Len(log) :
        (/\ log[i].statusCode = 200
         /\ \A x \in log[i].before.conversations : \A y \in log[i].before.conversations :
                (/\ x.user_id = log[i].chat.user_id /\ y.user_id = x.user_id
                 /\ x.topic = log[i].event.body.topic /\ y.topic # x.topic
                 /\ x.timestamp < y.timestamp) =>
                    Cardinality({z \in log[i].before.conversations :
                                    z.user_id = x.user_id /\ z.timestamp > x.timestamp})
                        < HistoryLimit)
        => HistoryInPrompt(i) = IF log[i].event.body.start_new_thread THEN <<>>
                                ELSE MessagesOf(LastN(TurnsBefore(i), PromptTurns))

\* a request on General with six stored General turns and one Work turn in
\* between, whose prompt holds the last five of them
C25_FiveOfSix ==
    \E i \in 1..Len(log) :
        /\ log[i].statusCode = 200 /\ ~log[i].event.body.start_new_thread
        /\ Len(TurnsBefore(i)) = 6 /\ Len(HistoryInPrompt(i)) = 2 * PromptTurns
        /\ \E y \in log[i].before.conversations :
               y.user_id = "alice" /\ y.topic = "Work" /\ log[i].chat.user_id = "alice"

(***************************************************************************)
(* SpecPrompt: chat requests of alice (an admin) and bob over two days,    *)
(* with and without admin facts, budget commands, due reminders and web    *)
(* results                                                                 *)
(***************************************************************************)
PromptInputs ==
    {[event |-> ChatEvent(Bearer(GoodToken("alice")), JsonBody(BusyMessage, FALSE, "General")),
      env |-> Busy],
     [event |-> ChatEvent(Bearer(GoodToken("bob")), JsonBody("hi", FALSE, "General")),
      env |-> Quiet]}
    \cup {[event |-> ChatEvent(Bearer(GoodToken("alice")), JsonBody(m, FALSE, "General")),
           env |-> Quiet] :
             m \in {"remember that the sky is green", "Remind me to", "the SUMMARY please"}}

NextPrompt ==
    \/ \E i \in PromptInputs : Invoke(i.event, i.env)
    \/ TickDay

SpecPrompt == Init /\ [][NextPrompt]_vars

\* the order in which line 910 joins the sections
SectionOrder == <<"system_prompt", "admin_knowledge", "budget_entry", "budget_summary",
                  "reminder_context", "web_search_context", "user_message">>

\* the sections of the last message of the prompt of request i, by name
SectionsOf(i) ==
    LET text == log[i].chat.prompt[Len(log[i].chat.prompt)].content.text
    IN  [k \in 1..Len(text) |-> text[k].section]

\* section s has something to report in request i: an admin fact is stored,
\* budget information was extracted or a summary fetched, a reminder is due,
\* the search selected a result
HasContent(i, s) ==
    CASE s = "admin_knowledge" -> log[i].before.adminKnowledge # {} \/ log[i].chat.knowledge_saved
      [] s = "budget_entry" -> log[i].chat.budget_info # None
      [] s = "budget_summary" -> log[i].chat.budget_summary # None
      [] s = "reminder_context" -> log[i].body.due_reminders_count > 0
      [] s = "web_search_context" -> Len(log[i].chat.search.selected) > 0
      [] OTHER -> TRUE

C26_Bare ==
    \E i \in 1..Len(log) :
        log[i].statusCode = 200 /\ SectionsOf(i) = <<"system_prompt", "user_message">>

\* the prompt of the request handled holds the 'BUDGET ENTRY SAVED' block
SavedBlockInPrompt ==
    LET text == ret.chat.prompt[Len(ret.chat.prompt)].content.text
    IN  \E k \in 1..Len(text) : text[k].section = "budget_entry"

\* C27: the prompt holds the 'BUDGET ENTRY SAVED' block only in a request in
\* which a budget entry was written: not when no amount was extracted, not
\* when the write failed, not when the caller is no admin
C27_SavedBlockOnlyWhenSaved ==
    (ret # Pending /\ ret.chat # None /\ SavedBlockInPrompt) =>
        /\ ret.chat.budget_saved
        /\ \E e \in budget : e.user_id = ret.chat.user_id

\* what holds: the block is in the prompt exactly when the caller is an
\* admin and the message is a budget command
C27_SavedBlockOfAdminCommand ==
    (ret # Pending /\ ret.chat # None
     /\ arg.env.fail \cap {"role_knowledge", "role_budget", "role_summary"} = {}) =>
        (SavedBlockInPrompt
         <=> (IsAdmin(ret.chat.user_id) /\ is_budget_command(MessageOf(arg.event))))

\* the block in the prompt of a request that extracted no amount and called
\* no write
C27_BlockWithoutAmount ==
    /\ ret # Pending /\ ret.chat # None /\ SavedBlockInPrompt
    /\ ~ret.chat.budget_save_called
    /\ ret.chat.budget_info.amount = None

\* the pending reminders of the caller of request i that were due strictly
\* after the request came
UpcomingBefore(i) ==
    {x \in log[i].before.reminders :
        /\ x.user_id = log[i].chat.user_id
        /\ x.status = "pending"
        /\ x.due_date > log[i].at * 1000}

\* C28: when the user has a pending reminder due strictly after now,
\* get_next_reminder returns the one of them with the earliest due_date, with
\* time_until_seconds >= 0; it returns None only when the user has none,
\* whatever older reminders are due or completed
C28_NextReminder ==
    \A i \in 1..Len(log) :
        log[i].statusCode = 200 =>
            IF UpcomingBefore(i) = {}
            THEN log[i].body.next_reminder = None
            ELSE /\ log[i].body.next_reminder # None
                 /\ \E x \in UpcomingBefore(i) :
                        /\ \A y \in UpcomingBefore(i) : x.due_date <= y.due_date
                        /\ log[i].body.next_reminder.due_timestamp = x.due_date
                        /\ log[i].body.next_reminder.reminder_text = x.reminder_text
                 /\ log[i].body.next_reminder.time_until_seconds >= 0

\* the same, for users whose oldest stored reminder is pending and not yet due
C28_NextReminderWhenOldestIsUpcoming ==
    \A i \in 1..Len(log) :
        (/\ log[i].statusCode = 200
         /\ \A x \in log[i].before.reminders :
                (x.user_id = log[i].chat.user_id
                 /\ \A y \in log[i].before.reminders :
                        y.user_id = x.user_id => x.reminder_id.n <= y.reminder_id.n)
                => x \in UpcomingBefore(i))
        => IF UpcomingBefore(i) = {}
           THEN log[i].body.next_reminder = None
           ELSE /\ log[i].body.next_reminder # None
                /\ \E x \in UpcomingBefore(i) :
                       /\ \A y \in UpcomingBefore(i) : x.due_date <= y.due_date
                       /\ log[i].body.next_reminder.due_timestamp = x.due_date
                       /\ log[i].body.next_reminder.reminder_text = x.reminder_text
                /\ log[i].body.next_reminder.time_until_seconds >= 0

\* a request that was told the next reminder, two being upcoming
C28_EarliestOfTwo ==
    \E i \in 1..Len(log) :
        /\ log[i].statusCode = 200
        /\ Cardinality(UpcomingBefore(i)) = 2
        /\ log[i].body.next_reminder # None

\* the records of user_id in the tables the Lambdas write for a user, table
\* by table
RecordsOf(user_id, db) ==
    [users |-> {x \in db.users : x.user_id = user_id},
     conversations |-> {x \in db.conversations : x.user_id = user_id},
     reminders |-> {x \in db.reminders : x.user_id = user_id},
     searchHistory |-> {x \in db.searchHistory : x.user_id = user_id},
     budget |-> {x \in db.budget : x.user_id = user_id}]

NoRecords == [users |-> {}, conversations |-> {}, reminders |-> {}, searchHistory |-> {},
              budget |-> {}]

\* the last request handled asked for the deletion of alice
DeletionOfAlice ==
    /\ Len(log) > 0
    /\ log[Len(log)].event.httpMethod = "DELETE"
    /\ log[Len(log)].event.path = "/admin/users/alice"

\* C29: after delete_user(u) returned True (the DELETE request is answered
\* 200) no record with user_id u is left in the user, conversation, reminder,
\* search-history and budget tables; when it returned False (or was not
\* called) no record of u has been deleted
C29_DeleteUser ==
    DeletionOfAlice =>
        IF log[Len(log)].statusCode = 200
        THEN RecordsOf("alice", DB) = NoRecords
        ELSE RecordsOf("alice", DB) = RecordsOf("alice", log[Len(log)].before)

\* what holds: after a deletion answered 200 the user, conversation and
\* reminder tables hold no record of the user
C29_DeletesProfileTurnsReminders ==
    (DeletionOfAlice /\ log[Len(log)].statusCode = 200) =>
        /\ RecordsOf("alice", DB).users = {}
        /\ RecordsOf("alice", DB).conversations = {}
        /\ RecordsOf("alice", DB).reminders = {}

\* a deletion answered 200 that left search-history records of the user
C29_HistoryLeft ==
    /\ DeletionOfAlice /\ log[Len(log)].statusCode = 200
    /\ RecordsOf("alice", log[Len(log)].before).conversations # {}
    /\ RecordsOf("alice", DB).searchHistory # {}

\* a deletion answered 500 after the profile and the turns were deleted
C29_PartlyDeleted ==
    /\ DeletionOfAlice /\ log[Len(log)].statusCode = 500
    /\ RecordsOf("alice", log[Len(log)].before).conversations # {}
    /\ RecordsOf("alice", DB).conversations = {}
    /\ RecordsOf("alice", DB).reminders # {}

(***************************************************************************)
(* The scheduled web crawler (lambda_functions/web_crawler)                *)
(***************************************************************************)
CrawlLimit == 20
SearchMaxResults == 5

\* the fallback URLs of the crawler's handler
fallback_urls == <<"https://news.ycombinator.com", "https://www.reddit.com/r/technology",
                   "https://techcrunch.com">>

\* the web crawler's search_duckduckgo(query, max_results=5) on the reply of
\* the instant-answer API: the FirstURL of the first five related topics that
\* have one, then the AbstractURL, cut to five; [] when the call raises
web_crawler_search_duckduckgo(reply) ==
    IF ~reply.ok THEN <<>>
    ELSE LET HasFirstURL(t) == t.FirstURL # Absent
             topics == SelectSeq(Take(reply.RelatedTopics, SearchMaxResults), HasFirstURL)
             urls == [k \in 1..Len(topics) |-> topics[k].FirstURL]
                     \o (IF reply.AbstractURL # "" THEN <<reply.AbstractURL>> ELSE <<>>)
         IN  Take(urls, SearchMaxResults)

\* the web crawler's search_google_knowledge_graph(query, api_key): of each
\* item the URL of its detailed description, or the URL of the result when it
\* has no detailed description, cut to five
web_crawler_search_google_knowledge_graph(reply) ==
    IF ~reply.ok THEN <<>>
    ELSE LET HasUrl(item) == IF item.detailed THEN item.detailed_url # Absent
                             ELSE item.url # Absent
             items == SelectSeq(reply.items, HasUrl)
         IN  Take([k \in 1..Len(items) |->
                      IF items[k].detailed THEN items[k].detailed_url ELSE items[k].url],
                  SearchMaxResults)

\* search_google_custom(query, api_key, search_engine_id): the link of every item
search_google_custom(reply) == IF ~reply.ok THEN <<>> ELSE reply.links

\* search_bing(query, api_key): the url of every page
search_bing(reply) == IF ~reply.ok THEN <<>> ELSE reply.links

\* get_ssm_parameter that hands the stored value on as it is
get_ssm_parameter_as_stored(parameter_name, ssm) ==
    IF parameter_name = "" THEN ""
    ELSE IF ssm.fail THEN ""
    ELSE ssm.values[parameter_name]

\* get_ssm_parameter(parameter_name): '' for no name, for the placeholder
\* NOT_SET and when the call raises
get_ssm_parameter(parameter_name, ssm) ==
    IF parameter_name = "" THEN ""
    ELSE IF ssm.fail THEN ""
    ELSE IF ssm.values[parameter_name] = "NOT_SET" THEN "" ELSE ssm.values[parameter_name]

\* crawl_url(url, s3_client, bucket_name): the result line, and the object put
\* to the bucket when the page was fetched and stored
crawl_url(url, web) ==
    IF url \in web.unreachable \/ url \in web.unstorable
    THEN [line |-> [kind |-> "Error processing", url |-> url], object |-> None,
          calls |-> <<[op |-> "get", url |-> url]>>
                    \o (IF url \in web.unreachable THEN <<>>
                        ELSE <<[op |-> "put_object", url |-> url]>>)]
    ELSE [line |-> [kind |-> "Successfully processed", url |-> url],
          object |-> [key |-> "web-crawled-data/" \o url, source_url |-> url],
          calls |-> <<[op |-> "get", url |-> url], [op |-> "put_object", url |-> url]>>]

RECURSIVE ListOf(_)
\* list(a_set): the elements in the order the set yields them
ListOf(S) == IF S = {} THEN <<>> ELSE LET x == CHOOSE y \in S : TRUE IN <<x>> \o ListOf(S \ {x})

\* the URLs one configured engine returns for a query, and whether it was
\* searched at all (lines 242-256)
SearchWith(search_engine, query, keys, web) ==
    IF search_engine = "duckduckgo"
    THEN [searched |-> TRUE, urls |-> web_crawler_search_duckduckgo(web.duckduckgo[query])]
    ELSE IF search_engine = "google_kg" /\ keys.google_api_key # ""
    THEN [searched |-> TRUE,
          urls |-> web_crawler_search_google_knowledge_graph(web.google_kg[query])]
    ELSE IF search_engine = "google" /\ keys.google_api_key # ""
            /\ keys.google_search_engine_id # ""
    THEN [searched |-> TRUE, urls |-> search_google_custom(web.google[query])]
    ELSE IF search_engine = "bing" /\ keys.bing_api_key # ""
    THEN [searched |-> TRUE, urls |-> search_bing(web.bing[query])]
    ELSE [searched |-> FALSE, urls |-> <<>>]

\* the loop over the URLs (lines 269-272): crawl, record the line, sleep
CrawlAll(urls, web) ==
    LET crawled == [k \in 1..Len(urls) |-> crawl_url(urls[k], web)]
        Steps_[k \in 0..Len(urls)] ==
            IF k = 0 THEN <<>>
            ELSE Steps_[k - 1] \o crawled[k].calls \o <<[op |-> "sleep", url |-> urls[k]]>>
        WasStored(c) == c.object # None
        stored == SelectSeq(crawled, WasStored)
    IN  [lines |-> [k \in 1..Len(urls) |-> crawled[k].line],
         steps |-> Steps_[Len(urls)],
         objects |-> {stored[k].object : k \in 1..Len(stored)}]

\* the web crawler's handler(event, context), for the search queries and
\* engines of the environment, split at the commas; `first` are the URLs that
\* list(all_urls)[:20] yields
web_crawler_handler(search_queries, search_engines, params, ssm, web, first) ==
    LET keys == [google_api_key |-> get_ssm_parameter(params.GOOGLE_API_KEY_PARAM, ssm),
                 google_search_engine_id |->
                     get_ssm_parameter(params.GOOGLE_SEARCH_ENGINE_ID_PARAM, ssm),
                 bing_api_key |-> get_ssm_parameter(params.BING_API_KEY_PARAM, ssm)]
        NotBlank(s) == Strip(s) # ""
        queries == SelectSeq(search_queries, NotBlank)
        engines == SelectSeq(search_engines, NotBlank)
        Found(q, e) == SearchWith(Strip(engines[e]), Strip(queries[q]), keys, web)
        query_urls == [q \in 1..Len(queries) |->
                         UNION {Range(Found(q, e).urls) : e \in 1..Len(engines)}]
        found == UNION {query_urls[q] : q \in 1..Len(queries)}
        all_urls == IF found = {} THEN Range(fallback_urls) ELSE found
        crawl == CrawlAll(ListOf(first), web)
    IN  [statusCode |-> 200,
         body |-> [message |-> "Web crawling and searching completed",
                   search_engines |-> search_engines, queries_searched |-> search_queries,
                   urls_found |-> Cardinality(all_urls),
                   results |-> [q \in 1..Len(queries) |->
                                   [kind |-> "Found", query |-> Strip(queries[q]),
                                    count |-> Cardinality(query_urls[q]),
                                    engines |-> Len(search_engines)]]
                               \o crawl.lines],
         searched |-> {<<Strip(engines[p[2]]), Strip(queries[p[1]])>> :
                          p \in {x \in (1..Len(queries)) \X (1..Len(engines)) :
                                    Found(x[1], x[2]).searched}},
         found |-> found, all_urls |-> all_urls, attempted |-> ListOf(first),
         steps |-> crawl.steps, objects |-> crawl.objects]

(***************************************************************************)
(* SpecCrawler: one run of the web crawler's handler, whatever the engines *)
(* are configured, whatever they answer and whichever pages fail           *)
(***************************************************************************)
CrawlerQueries == {<<"AI news", "technology updates", "programming tutorials">>,
                   <<"AI news", " ", "">>}
CrawlerEngines == {<<"duckduckgo", "google_kg">>, <<"duckduckgo", " google", "bing">>,
                   <<"google_kg", "">>}

\* the parameter names of the deployment, and none
CrawlerParams == {[GOOGLE_API_KEY_PARAM |-> "/search/google_api_key",
                   GOOGLE_SEARCH_ENGINE_ID_PARAM |-> "/search/google_search_engine_id",
                   BING_API_KEY_PARAM |-> "/search/bing_api_key"],
                  [GOOGLE_API_KEY_PARAM |-> "", GOOGLE_SEARCH_ENGINE_ID_PARAM |-> "",
                   BING_API_KEY_PARAM |-> ""]}

\* the parameter store: every value set, the engine id left at the
\* placeholder, every value at the placeholder, and a store that cannot be read
SsmStores ==
    {[fail |-> f,
      values |-> [n \in {"/search/google_api_key", "/search/google_search_engine_id",
                         "/search/bing_api_key"} |->
                    IF n \in unset THEN "NOT_SET" ELSE "secret"]] :
        f \in BOOLEAN,
        unset \in {{}, {"/search/google_search_engine_id"},
                   {"/search/google_api_key", "/search/google_search_engine_id",
                    "/search/bing_api_key"}}}

AllQueries == {"AI news", "technology updates", "programming tutorials"}

\* DuckDuckGo answers every query with six related topics, the second of
\* them without FirstURL, and an abstract URL; or with one shared URL; or
\* with nothing; or the call raises
DdgAnswers ==
    {[q \in AllQueries |->
         [ok |-> TRUE,
          RelatedTopics |-> [k \in 1..6 |->
                               [FirstURL |-> IF k = 2 THEN Absent
                                             ELSE "ddg/" \o q \o "/" \o ToString(k)]],
          AbstractURL |-> "ddg/" \o q \o "/abstract"]],
     [q \in AllQueries |->
         [ok |-> TRUE, RelatedTopics |-> <<[FirstURL |-> "shared"]>>, AbstractURL |-> "shared"]],
     [q \in AllQueries |-> [ok |-> TRUE, RelatedTopics |-> <<>>, AbstractURL |-> ""]],
     [q \in AllQueries |-> [ok |-> FALSE, RelatedTopics |-> <<>>, AbstractURL |-> ""]]}

\* the Knowledge Graph answers every query with an entity whose detailed
\* description has a URL, one with a URL of its own, and one whose detailed
\* description has none; or the call raises
KgAnswers ==
    {[q \in AllQueries |->
         [ok |-> TRUE,
          items |-> <<[detailed |-> TRUE, detailed_url |-> "kg/" \o q \o "/1", url |-> Absent],
                      [detailed |-> FALSE, detailed_url |-> Absent, url |-> "kg/" \o q \o "/2"],
                      [detailed |-> TRUE, detailed_url |-> Absent,
                       url |-> "kg/" \o q \o "/3"]>>]],
     [q \in AllQueries |-> [ok |-> FALSE, items |-> <<>>]]}

\* Google Custom Search and Bing answer with one link, or the call raises
LinkAnswers(engine) ==
    {[q \in AllQueries |-> [ok |-> TRUE, links |-> <<engine \o "/" \o q, "shared">>]],
     [q \in AllQueries |-> [ok |-> FALSE, links |-> <<>>]]}

\* the pages that cannot be fetched, and the pages that cannot be stored
CrawlerFailures ==
    {[unreachable |-> {}, unstorable |-> {}],
     [unreachable |-> {"ddg/AI news/1", "https://news.ycombinator.com", "shared"},
      unstorable |-> {"kg/AI news/1", "https://techcrunch.com"}]}

InitCrawler ==
    /\ clock = 0
    /\ environ = Deployed
    /\ EmptyTables
    /\ log = <<>>
    /\ \E q \in CrawlerQueries : \E e \in CrawlerEngines : \E p \in CrawlerParams :
       \E s \in SsmStores : \E d \in DdgAnswers : \E k \in KgAnswers :
       \E g \in LinkAnswers("google") : \E b \in LinkAnswers("bing") :
       \E x \in CrawlerFailures :
           arg = [search_queries |-> q, search_engines |-> e, params |-> p, ssm |-> s,
                  web |-> [duckduckgo |-> d, google_kg |-> k, google |-> g, bing |-> b]
                          @@ x]
    /\ ret = Pending

RECURSIVE Leaving(_, _)
\* the ways of leaving k elements of S out
Leaving(S, k) ==
    IF k <= 0 THEN {{}}
    ELSE UNION {{T \cup {x} : T \in Leaving(S \ {x}, k - 1)} : x \in S}

\* one scheduled run: handler(event, context) of the web crawler.  Which 20
\* URLs list(all_urls)[:20] yields of a larger set is the set's to choose
Crawl ==
    /\ ret = Pending
    /\ LET Run(all_urls) ==
               \E rest \in Leaving(all_urls, Cardinality(all_urls) - CrawlLimit) :
                   ret' = web_crawler_handler(arg.search_queries, arg.search_engines,
                                              arg.params, arg.ssm, arg.web, all_urls \ rest)
       IN  Run(web_crawler_handler(arg.search_queries, arg.search_engines, arg.params,
                                   arg.ssm, arg.web, {}).all_urls)
    /\ UNCHANGED <<clock, environ, users, conversations, reminders, adminKnowledge, budget,
                   searchHistory, log, arg>>

NextCrawler == Crawl

SpecCrawler == InitCrawler /\ [][NextCrawler]_vars

\* the key the run holds for an engine: the stored value of its parameter,
\* unless the parameter is not named, is the placeholder, or cannot be read
HoldsKey(name) ==
    /\ arg.params[name] # ""
    /\ ~arg.ssm.fail
    /\ arg.ssm.values[arg.params[name]] \notin {"", "NOT_SET"}

\* the steps of the run that concern the k-th attempted URL follow those of
\* the URLs before it and end with the one-second sleep
PacedAt(k) ==
    LET mine == {j \in 1..Len(ret.steps) : ret.steps[j].url = ret.attempted[k]}
    IN  /\ Cardinality({j \in mine : ret.steps[j].op = "get"}) = 1
        /\ Cardinality({j \in mine : ret.steps[j].op = "sleep"}) = 1
        /\ \A j \in mine : \A i \in mine :
               (ret.steps[j].op = "get" /\ ret.steps[i].op = "sleep") => j < i
        /\ \A j \in mine : \A i \in 1..Len(ret.steps) :
               (i \notin mine /\ \E n \in 1..(k - 1) : ret.steps[i].url = ret.attempted[n])
                   => i < j

\* C30: a run of the crawler attempts each selected URL exactly once, selects
\* at most 20 distinct URLs, uses the fallback URLs exactly when no search
\* returned a URL, sleeps one second after each crawl request, searches no
\* engine whose key is empty or the placeholder, and returns 200 with one
\* result line per attempted URL, whichever searches and crawls fail
C30_CrawlerBatch ==
    ret # Pending =>
        LET crawl_lines == SubSeq(ret.body.results,
                                  Len(ret.body.results) - Len(ret.attempted) + 1,
                                  Len(ret.body.results))
        IN  /\ ret.statusCode = 200
            /\ Len(ret.attempted) <= CrawlLimit
            /\ Cardinality(Range(ret.attempted)) = Len(ret.attempted)
            /\ Range(ret.attempted) \subseteq ret.all_urls
            /\ Cardinality(ret.all_urls) <= CrawlLimit => Range(ret.attempted) = ret.all_urls
            /\ (ret.all_urls = Range(fallback_urls)) <=> (ret.found = {})
            /\ ret.found # {} => ret.all_urls = ret.found
            /\ \A k \in 1..Len(ret.attempted) : PacedAt(k)
            /\ \A s \in ret.searched :
                   CASE s[1] = "duckduckgo" -> TRUE
                     [] s[1] = "google_kg" -> HoldsKey("GOOGLE_API_KEY_PARAM")
                     [] s[1] = "google" -> HoldsKey("GOOGLE_API_KEY_PARAM")
                     [] s[1] = "bing" -> HoldsKey("BING_API_KEY_PARAM")
                     [] OTHER -> FALSE
            /\ Len(crawl_lines) = Len(ret.attempted)
            /\ \A k \in 1..Len(ret.attempted) :
                   /\ crawl_lines[k].url = ret.attempted[k]
                   /\ crawl_lines[k].kind \in {"Successfully processed", "Error processing"}
            /\ \A k \in 1..(Len(ret.body.results) - Len(ret.attempted)) :
                   ret.body.results[k].kind = "Found"

\* a run that found more than 20 URLs, with a failing search engine, in which
\* a page that could not be fetched and one that could not be stored were
\* followed by a page that was stored
C30_Witness ==
    /\ ret # Pending
    /\ Cardinality(ret.all_urls) > CrawlLimit
    /\ Len(ret.attempted) = CrawlLimit
    /\ \E i \in 1..Len(ret.attempted) : \E j \in 1..Len(ret.attempted) :
       \E k \in 1..Len(ret.attempted) :
           /\ i < k /\ j < k
           /\ ret.attempted[i] \in arg.web.unreachable
           /\ ret.attempted[j] \in arg.web.unstorable
           /\ \E o \in ret.objects : o.source_url = ret.attempted[k]

\* a run in which every search failed or was skipped and the fallback URLs
\* were crawled
C30_Fallback ==
    /\ ret # Pending
    /\ ret.found = {}
    /\ Range(ret.attempted) = Range(fallback_urls)
    /\ \E s \in ret.searched : s[1] = "duckduckgo"

\* a run that skipped the Knowledge Graph because its key is the placeholder
C30_Skipped ==
    /\ ret # Pending
    /\ "google_kg" \in Range(arg.search_engines)
    /\ arg.params.GOOGLE_API_KEY_PARAM # "" /\ ~arg.ssm.fail
    /\ arg.ssm.values[arg.params.GOOGLE_API_KEY_PARAM] = "NOT_SET"
    /\ \A s \in ret.searched : s[1] # "google_kg"

====
